---- MODULE Spec2Model ----
(***************************************************************************)
(* Model of the bee_sample_viewer decoding core:                           *)
(*   - JSONViewer._parse_token_sections   (widgets.py)                     *)
(*   - JSONViewer._expand_nested_json     (widgets.py)                     *)
(*   - JSONViewer._has_markdown_content   (widgets.py)                     *)
(*   - JSONViewer._render_markdown_with_code, _update_content, the data    *)
(*     setter and action_toggle_markdown  (widgets.py)                     *)
(*   - ConversationViewer._expand_nested_json, _render_turn,               *)
(*     _update_display, compose, on_mount and the conversation setter      *)
(*     (conversation_viewer.py)                                            *)
(*   - BeeViewerApp: sample navigation, tabs and the markdown toggle       *)
(*     (app.py)                                                            *)
(*                                                                         *)
(* A Python string is modelled as the sequence of its lexemes.  For the    *)
(* token parser a lexeme is one of the characters "<", "|", ">", " ", a    *)
(* lower-case letter, or a maximal run of characters of [A-Z_] (a NAME).   *)
(* Offsets count lexemes; text[a:b] is Slice(text, a, b).                  *)
(***************************************************************************)
EXTENDS Integers, Sequences, FiniteSets, TLC

VARIABLES
    text,                   \* argument of _parse_token_sections
    matches,                \* list(re.finditer(token_pattern, text))
    mi,                     \* 1-based index of the match the for loop is at
    sections,               \* the list being built / returned
    current_section_type,
    current_section_start,
    section_stack,
    pc,                     \* position in the running function
    obj,                    \* argument of _expand_nested_json
    max_depth,              \* argument of ConversationViewer._expand_nested_json
    expanded,               \* value returned by _expand_nested_json
    again,                  \* value returned for the returned value
    turn,                   \* argument of _render_turn
    panel,                  \* what _render_turn or _render_markdown_with_code
                            \* returned or raised
    conversation,           \* ConversationViewer._conversation
    ti,                     \* index of the turn the loop of _update_display is at
    panels,                 \* the list `renderables` of _update_display
    display,                \* what the content widget shows
    md_data,                \* argument `data` of _has_markdown_content,
                            \* JSONViewer._data
    has_markdown,           \* value returned by _has_markdown_content
    mounted,                \* ConversationViewer.is_mounted
    was_set,                \* history: the conversation setter has been called
    active,                 \* TabbedContent.active, the id of the active tab
    markdown_mode,          \* JSONViewer._markdown_mode of each viewer
    toggled,                \* history: presses of "m" while a viewer's tab is active
    n_samples,              \* len(self.filtered_samples)
    current_sample_index,   \* BeeViewerApp.current_sample_index
    shown_sample,           \* index of the sample the viewers hold
    cursor_row              \* cursor row of the sample list

vars == <<text, matches, mi, sections, current_section_type,
          current_section_start, section_stack, pc,
          obj, max_depth, expanded, again, turn, panel,
          conversation, ti, panels, display, md_data, has_markdown,
          mounted, was_set, active, markdown_mode, toggled, n_samples,
          current_sample_index, shown_sample, cursor_row>>

parseVars == <<text, matches, mi, sections, current_section_type,
               current_section_start, section_stack>>

jsonVars == <<obj, max_depth, expanded, again>>

turnVars == <<turn, panel>>

displayVars == <<conversation, ti, panels, display>>

classifyVars == <<md_data, has_markdown>>

mountVars == <<mounted, was_set>>

appVars == <<active, markdown_mode, toggled, n_samples, current_sample_index,
             shown_sample, cursor_row>>

shellVars == <<mountVars, appVars>>

viewVars == <<displayVars, classifyVars, shellVars>>

----------------------------------------------------------------------------
(* Bounds *)

\* Largest number of segments an input text is built from.
MaxSegments == 3

----------------------------------------------------------------------------
(* Generic sequence helpers *)

\* Value of a variable the running function does not use
NotSet == [t |-> "unset"]

\* No widget is mounted and no sample list is loaded
ShellIdle ==
    /\ mounted = FALSE /\ was_set = FALSE
    /\ active = "" /\ markdown_mode = <<>> /\ toggled = <<>>
    /\ n_samples = 0 /\ current_sample_index = 0
    /\ shown_sample = -1 /\ cursor_row = 0

\* No conversation is being displayed and no value is being classified
ViewIdle ==
    /\ conversation = [t |-> "null"] /\ ti = 0 /\ panels = <<>>
    /\ display = NotSet
    /\ md_data = NotSet /\ has_markdown = NotSet
    /\ ShellIdle

\* The value a local variable is bound to: the element of a one-element set
Only(S) == CHOOSE v \in S : TRUE

Last(s) == s[Len(s)]

Front(s) == SubSeq(s, 1, Len(s) - 1)

\* Python slice s[a:b] with 0-based offsets 0 <= a <= b <= len(s)
Slice(s, a, b) == SubSeq(s, a + 1, b)

RECURSIVE Flatten(_)
Flatten(ss) == IF ss = <<>> THEN <<>> ELSE ss[1] \o Flatten(Tail(ss))

----------------------------------------------------------------------------
(* Marker grammar *)

\* The NAME lexemes: runs of [A-Z_].
NameLexemes ==
    {"SYSTEM_TOKEN", "USER_TOKEN", "CHATBOT_TOKEN",
     "START_THINKING", "END_THINKING", "START_ACTION", "END_ACTION",
     "START_RESPONSE", "END_RESPONSE", "START_TOOL_RESULT", "END_TOOL_RESULT",
     "START_OF_TURN_TOKEN", "END_OF_TURN_TOKEN", "FOO"}

\* Mutant: the character class widened to lower-case letters, [A-Za-z_].
IsNameLexemeAnyCase(l) == l \in NameLexemes \cup {"x"}

\* [A-Z_] character class of token_pattern
IsNameLexeme(l) == l \in NameLexemes

\* str.isspace() on a lexeme
IsSpace(l) == l \in {" ", "\n"}

\* token_map of _parse_token_sections
token_map ==
    [t \in {"<|SYSTEM_TOKEN|>", "<|USER_TOKEN|>", "<|CHATBOT_TOKEN|>",
            "<|START_THINKING|>", "<|END_THINKING|>",
            "<|START_ACTION|>", "<|END_ACTION|>",
            "<|START_RESPONSE|>", "<|END_RESPONSE|>",
            "<|START_TOOL_RESULT|>", "<|END_TOOL_RESULT|>",
            "<|START_OF_TURN_TOKEN|>", "<|END_OF_TURN_TOKEN|>"} |->
        CASE t = "<|SYSTEM_TOKEN|>"        -> "system"
          [] t = "<|USER_TOKEN|>"          -> "user"
          [] t = "<|CHATBOT_TOKEN|>"       -> "chatbot"
          [] t = "<|START_THINKING|>"      -> "thinking"
          [] t = "<|END_THINKING|>"        -> "end_thinking"
          [] t = "<|START_ACTION|>"        -> "action"
          [] t = "<|END_ACTION|>"          -> "end_action"
          [] t = "<|START_RESPONSE|>"      -> "response"
          [] t = "<|END_RESPONSE|>"        -> "end_response"
          [] t = "<|START_TOOL_RESULT|>"   -> "tool_result"
          [] t = "<|END_TOOL_RESULT|>"     -> "end_tool_result"
          [] t = "<|START_OF_TURN_TOKEN|>" -> "turn_start"
          [] t = "<|END_OF_TURN_TOKEN|>"   -> "turn_end"]

\* section_type.startswith('end_')
StartsWithEnd(section_type) ==
    section_type \in {"end_thinking", "end_action", "end_response",
                      "end_tool_result"}

\* section_type in ['turn_start', 'turn_end']
IsTurnType(section_type) == section_type \in {"turn_start", "turn_end"}

----------------------------------------------------------------------------
(* re.finditer(r'<\|[A-Z_]+\|>', text) *)

\* Offset just after the maximal run of NAME lexemes that starts at offset j.
RECURSIVE NameRunEnd(_, _)
NameRunEnd(s, j) ==
    IF j < Len(s) /\ IsNameLexeme(s[j + 1]) THEN NameRunEnd(s, j + 1) ELSE j

\* The text of s[a:b] as one string.
RECURSIVE Join(_)
Join(s) == IF s = <<>> THEN "" ELSE s[1] \o Join(Tail(s))

\* End offset of the match of the pattern at offset i, or -1 when none.
MatchEndAt(s, i) ==
    IF i + 2 <= Len(s) /\ s[i + 1] = "<" /\ s[i + 2] = "|"
    THEN LET j == NameRunEnd(s, i + 2)
         IN  IF j > i + 2 /\ j + 2 <= Len(s) /\ s[j + 1] = "|" /\ s[j + 2] = ">"
             THEN j + 2
             ELSE -1
    ELSE -1

\* Leftmost non-overlapping matches from offset i on: group(), start(), end().
RECURSIVE FindIterFrom(_, _)
FindIterFrom(s, i) ==
    Only({ IF starts = {} THEN <<>>
           ELSE Only({ <<[token |-> Join(Slice(s, m[1], m[2])),
                          start |-> m[1], end |-> m[2]]>>
                       \o FindIterFrom(s, m[2])
                       : m \in {Only({ <<j, MatchEndAt(s, j)>>
                                       : j \in {CHOOSE j \in starts :
                                                  \A other \in starts : j <= other} })} })
           : starts \in {{j \in i..(Len(s) - 1) : MatchEndAt(s, j) # -1}} })

FindIter(s) == FindIterFrom(s, 0)

----------------------------------------------------------------------------
(* Inputs *)

Marker(name) == <<"<", "|", name, "|", ">">>

\* What an input text is made of: every recognized marker, an unrecognized
\* marker, a token with a lower-case name (not marker-shaped), text, blank.
Segments ==
    {Marker(n) : n \in NameLexemes}
        \cup {<<"<", "|", "x", "|", ">">>, <<"x">>, <<" ">>}

RECURSIVE TextsOf(_)
TextsOf(n) ==
    IF n = 0 THEN {<<>>}
    ELSE LET shorter == TextsOf(n - 1)
         IN  shorter \cup {t \o g : t \in shorter, g \in Segments}

Texts == TextsOf(MaxSegments)

----------------------------------------------------------------------------
(* JSONViewer._parse_token_sections *)

\* content.strip()
Strip(s) ==
    IF \A i \in 1..Len(s) : IsSpace(s[i]) THEN <<>>
    ELSE LET a == CHOOSE i \in 1..Len(s) :
                    ~IsSpace(s[i]) /\ \A k \in 1..(i - 1) : IsSpace(s[k])
             b == CHOOSE i \in 1..Len(s) :
                    ~IsSpace(s[i]) /\ \A k \in (i + 1)..Len(s) : IsSpace(s[k])
         IN  SubSeq(s, a, b)

\* "Add content before this token" (lines 299-303)
ContentBefore(m) ==
    IF m.start > current_section_start
    THEN LET content == Slice(text, current_section_start, m.start)
         IN  IF Strip(content) # <<>>
             THEN Append(sections, [type |-> current_section_type,
                                    token |-> m.token,
                                    content |-> content])
             ELSE sections
    ELSE sections

ParseInit ==
    /\ text \in Texts
    /\ matches = <<>>
    /\ mi = 1
    /\ sections = <<>>
    /\ current_section_type = "plain"
    /\ current_section_start = 0
    /\ section_stack = <<>>
    /\ pc = "find"
    /\ obj = NotSet /\ max_depth = 0 /\ expanded = NotSet /\ again = NotSet
    /\ turn = NotSet /\ panel = NotSet
    /\ ViewIdle

\* lines 282-292: find the tokens; no match returns the text as one section
FindTokens ==
    /\ pc = "find"
    /\ matches' = FindIter(text)
    /\ IF matches' = <<>>
       THEN /\ sections' = <<[type |-> "plain", token |-> "", content |-> text]>>
            /\ pc' = "done"
       ELSE /\ sections' = <<>>
            /\ pc' = "loop"
    /\ mi' = 1
    /\ current_section_type' = "plain"
    /\ current_section_start' = 0
    /\ section_stack' = <<>>
    /\ UNCHANGED <<text, jsonVars, turnVars, viewVars>>

AtToken == pc = "loop" /\ mi <= Len(matches)

\* Mutant: an END_* token pops only the section it nominally closes.
EndTokenMatchingOnly ==
    /\ AtToken
    /\ LET m == matches[mi] IN
        /\ m.token \in DOMAIN token_map
        /\ StartsWithEnd(token_map[m.token])
        /\ sections' = ContentBefore(m)
        /\ section_stack' =
             IF section_stack # <<>>
                /\ token_map[m.token] = ("end_" \o Last(section_stack))
             THEN Front(section_stack)
             ELSE section_stack
        /\ current_section_type' = IF section_stack' # <<>>
                                   THEN Last(section_stack') ELSE "plain"
        /\ current_section_start' = m.end
    /\ mi' = mi + 1
    /\ UNCHANGED <<text, matches, pc, jsonVars, turnVars, viewVars>>

\* Mutant: an END_* token pops the stack but the active kind stays.
EndTokenKeepsKind ==
    /\ AtToken
    /\ LET m == matches[mi] IN
        /\ m.token \in DOMAIN token_map
        /\ StartsWithEnd(token_map[m.token])
        /\ sections' = ContentBefore(m)
        /\ section_stack' = IF section_stack # <<>> THEN Front(section_stack)
                                                    ELSE section_stack
        /\ current_section_start' = m.end
    /\ mi' = mi + 1
    /\ UNCHANGED <<text, matches, pc, current_section_type, jsonVars,
                   turnVars, viewVars>>

\* one loop iteration at an END_* token (lines 309-313, 322)
EndToken ==
    /\ AtToken
    /\ LET m == matches[mi] IN
        /\ m.token \in DOMAIN token_map
        /\ StartsWithEnd(token_map[m.token])
        /\ sections' = ContentBefore(m)
        /\ section_stack' = IF section_stack # <<>> THEN Front(section_stack)
                                                    ELSE section_stack
        /\ current_section_type' = IF section_stack' # <<>>
                                   THEN Last(section_stack') ELSE "plain"
        /\ current_section_start' = m.end
    /\ mi' = mi + 1
    /\ UNCHANGED <<text, matches, pc, jsonVars, turnVars, viewVars>>

\* Mutant: a turn marker starts afresh, as a role marker is said to.
TurnTokenResets ==
    /\ AtToken
    /\ LET m == matches[mi] IN
        /\ m.token \in DOMAIN token_map
        /\ ~StartsWithEnd(token_map[m.token])
        /\ IsTurnType(token_map[m.token])
        /\ sections' = ContentBefore(m)
        /\ section_stack' = <<>>
        /\ current_section_type' = "plain"
        /\ current_section_start' = m.end
    /\ mi' = mi + 1
    /\ UNCHANGED <<text, matches, pc, jsonVars, turnVars, viewVars>>

\* one loop iteration at a turn marker (lines 314-316, 322)
TurnToken ==
    /\ AtToken
    /\ LET m == matches[mi] IN
        /\ m.token \in DOMAIN token_map
        /\ ~StartsWithEnd(token_map[m.token])
        /\ IsTurnType(token_map[m.token])
        /\ sections' = ContentBefore(m)
        /\ current_section_start' = m.end
    /\ mi' = mi + 1
    /\ UNCHANGED <<text, matches, pc, section_stack, current_section_type,
                   jsonVars, turnVars, viewVars>>

\* Mutant: the cursor stays at the start of the token instead of its end.
PushTokenKeepsCursor ==
    /\ AtToken
    /\ LET m == matches[mi] IN
        /\ m.token \in DOMAIN token_map
        /\ ~StartsWithEnd(token_map[m.token])
        /\ ~IsTurnType(token_map[m.token])
        /\ sections' = ContentBefore(m)
        /\ section_stack' = Append(section_stack, token_map[m.token])
        /\ current_section_type' = token_map[m.token]
        /\ current_section_start' = m.start
    /\ mi' = mi + 1
    /\ UNCHANGED <<text, matches, pc, jsonVars, turnVars, viewVars>>

\* one loop iteration at a role or START_* token (lines 317-322)
PushToken ==
    /\ AtToken
    /\ LET m == matches[mi] IN
        /\ m.token \in DOMAIN token_map
        /\ ~StartsWithEnd(token_map[m.token])
        /\ ~IsTurnType(token_map[m.token])
        /\ sections' = ContentBefore(m)
        /\ section_stack' = Append(section_stack, token_map[m.token])
        /\ current_section_type' = token_map[m.token]
        /\ current_section_start' = m.end
    /\ mi' = mi + 1
    /\ UNCHANGED <<text, matches, pc, jsonVars, turnVars, viewVars>>

\* one loop iteration at a token that is not in token_map (lines 323-326)
UnknownToken ==
    /\ AtToken
    /\ LET m == matches[mi] IN
        /\ m.token \notin DOMAIN token_map
        /\ sections' = ContentBefore(m)
    /\ mi' = mi + 1
    /\ UNCHANGED <<text, matches, pc, section_stack, current_section_type,
                   current_section_start, jsonVars, turnVars, viewVars>>

\* lines 328-334: the remaining content and the return
AddRemaining ==
    /\ pc = "loop"
    /\ mi > Len(matches)
    /\ LET content == Slice(text, current_section_start, Len(text))
           withRest ==
               IF current_section_start < Len(text) /\ Strip(content) # <<>>
               THEN Append(sections, [type |-> current_section_type,
                                      token |-> "",
                                      content |-> content])
               ELSE sections
       IN  sections' = IF withRest # <<>> THEN withRest
                       ELSE <<[type |-> "plain", token |-> "", content |-> text]>>
    /\ pc' = "done"
    /\ UNCHANGED <<text, matches, mi, current_section_type,
                   current_section_start, section_stack, jsonVars, turnVars,
                   viewVars>>

ParseNext ==
    \/ FindTokens
    \/ EndToken
    \/ TurnToken
    \/ PushToken
    \/ UnknownToken
    \/ AddRemaining

ParseSpec == ParseInit /\ [][ParseNext]_vars

----------------------------------------------------------------------------
(* JSON values and json.loads / json.dumps                                 *)
(*                                                                         *)
(* A JSON text is a sequence of lexemes: the characters { } [ ] , : " \    *)
(* and space, the digits, the letters x and k, and the literals null, true *)
(* and false.  In every input a backslash is followed by " or \.           *)

\* Depth of arrays and objects at which the scanner of json.loads raises
\* RecursionError (the interpreter's recursion limit, scaled to the inputs)
RecursionLimit == 8

JNull == [t |-> "null"]
JBool(b) == [t |-> "bool", b |-> b]
JNum(n) == [t |-> "num", n |-> n]
JStr(chars) == [t |-> "str", s |-> chars]
JList(items) == [t |-> "list", items |-> items]
JDict(keys, vals) == [t |-> "dict", keys |-> keys, vals |-> vals]

Digits == <<"0", "1", "2", "3", "4", "5", "6", "7", "8", "9">>

IsDigit(c) == \E d \in 1..Len(Digits) : Digits[d] = c

DigitValue(c) == (CHOOSE d \in 1..Len(Digits) : Digits[d] = c) - 1

\* Result of a parse that raises json.JSONDecodeError
Fail == [ok |-> FALSE, val |-> JNull, next |-> 0, exc |-> "JSONDecodeError"]

\* Result of a parse whose scanner runs out of stack: RecursionError, which is
\* a RuntimeError and not a ValueError
TooDeep == [ok |-> FALSE, val |-> JNull, next |-> 0, exc |-> "RecursionError"]

Ok(v, next) == [ok |-> TRUE, val |-> v, next |-> next, exc |-> ""]

\* Offset of the first lexeme at or after p that is not whitespace
SkipWs(s, p) ==
    CHOOSE q \in p..(Len(s) + 1) :
        /\ q > Len(s) \/ ~IsSpace(s[q])
        /\ \A k \in p..(q - 1) : IsSpace(s[k])

\* The digits of a number after its first: (value, next)
RECURSIVE ParseDigits(_, _, _)
ParseDigits(s, p, n) ==
    IF p <= Len(s) /\ IsDigit(s[p])
    THEN ParseDigits(s, p + 1, 10 * n + DigitValue(s[p]))
    ELSE Ok(JNum(n), p)

\* The characters of a string literal after the opening quote
RECURSIVE ParseStringBody(_, _, _)
ParseStringBody(s, p, acc) ==
    IF p > Len(s) THEN Fail
    ELSE IF s[p] = "\"" THEN Ok(acc, p + 1)
    ELSE IF s[p] = "\\"
         THEN IF p + 1 <= Len(s) /\ s[p + 1] \in {"\"", "\\"}
              THEN ParseStringBody(s, p + 2, Append(acc, s[p + 1]))
              ELSE Fail
    ELSE ParseStringBody(s, p + 1, Append(acc, s[p]))

\* dict[key] = value: a repeated key keeps its place and takes the new value
DictPut(d, key, val) ==
    IF \E i \in 1..Len(d.keys) : d.keys[i] = key
    THEN LET i == CHOOSE i \in 1..Len(d.keys) : d.keys[i] = key
         IN  JDict(d.keys, [d.vals EXCEPT ![i] = val])
    ELSE JDict(Append(d.keys, key), Append(d.vals, val))

RECURSIVE ParseValue(_, _, _), ParseElements(_, _, _, _),
          ParseMembers(_, _, _, _)

\* The value that starts at p (p is past the whitespace), inside `nesting`
\* open arrays and objects.  The scanner recurses once per array or object and
\* raises RecursionError when the interpreter's recursion limit is reached.
ParseValue(s, p, nesting) ==
    IF p > Len(s) THEN Fail
    ELSE IF s[p] \in {"[", "{"} /\ nesting >= RecursionLimit THEN TooDeep
    ELSE IF s[p] = "[" THEN
        LET q == SkipWs(s, p + 1)
        IN  IF q <= Len(s) /\ s[q] = "]" THEN Ok(JList(<<>>), q + 1)
            ELSE ParseElements(s, q, <<>>, nesting + 1)
    ELSE IF s[p] = "{" THEN
        LET q == SkipWs(s, p + 1)
        IN  IF q <= Len(s) /\ s[q] = "}" THEN Ok(JDict(<<>>, <<>>), q + 1)
            ELSE ParseMembers(s, q, JDict(<<>>, <<>>), nesting + 1)
    ELSE IF s[p] = "\"" THEN
        LET r == ParseStringBody(s, p + 1, <<>>)
        IN  IF r.ok THEN Ok(JStr(r.val), r.next) ELSE Fail
    ELSE IF s[p] = "0" THEN Ok(JNum(0), p + 1)
    ELSE IF IsDigit(s[p]) THEN ParseDigits(s, p + 1, DigitValue(s[p]))
    ELSE IF s[p] = "null" THEN Ok(JNull, p + 1)
    ELSE IF s[p] = "true" THEN Ok(JBool(TRUE), p + 1)
    ELSE IF s[p] = "false" THEN Ok(JBool(FALSE), p + 1)
    ELSE Fail

\* The elements of an array from p on, up to and including its "]"
ParseElements(s, p, acc, nesting) ==
    Only({ IF ~r.ok THEN r
           ELSE LET q == SkipWs(s, r.next)
                IN  IF q > Len(s) THEN Fail
                    ELSE IF s[q] = "," THEN
                        ParseElements(s, SkipWs(s, q + 1), Append(acc, r.val),
                                      nesting)
                    ELSE IF s[q] = "]" THEN Ok(JList(Append(acc, r.val)), q + 1)
                    ELSE Fail
           : r \in {ParseValue(s, p, nesting)} })

\* The members of an object from p on, up to and including its "}"
ParseMembers(s, p, d, nesting) ==
    IF p > Len(s) \/ s[p] # "\"" THEN Fail
    ELSE LET k == ParseStringBody(s, p + 1, <<>>)
         IN  IF ~k.ok THEN Fail
             ELSE LET c == SkipWs(s, k.next)
                  IN  IF c > Len(s) \/ s[c] # ":" THEN Fail
                      ELSE Only({
                             IF ~r.ok THEN r
                             ELSE LET q == SkipWs(s, r.next)
                                      e == DictPut(d, k.val, r.val)
                                  IN  IF q > Len(s) THEN Fail
                                      ELSE IF s[q] = "," THEN
                                          ParseMembers(s, SkipWs(s, q + 1), e,
                                                       nesting)
                                      ELSE IF s[q] = "}" THEN Ok(e, q + 1)
                                      ELSE Fail
                             : r \in {ParseValue(s, SkipWs(s, c + 1), nesting)} })

\* json.loads(s): ok is FALSE where json.loads raises, exc is what it raises
Loads(s) ==
    Only({ IF ~r.ok THEN r
           ELSE IF SkipWs(s, r.next) = Len(s) + 1 THEN r ELSE Fail
           : r \in {ParseValue(s, SkipWs(s, 1), 0)} })

\* The characters of a string as json.dumps writes them between the quotes
RECURSIVE Escape(_)
Escape(chars) ==
    IF chars = <<>> THEN <<>>
    ELSE IF Len(chars) = 1
    THEN (IF chars[1] \in {"\"", "\\"} THEN <<"\\", chars[1]>> ELSE <<chars[1]>>)
    ELSE Escape(SubSeq(chars, 1, Len(chars) \div 2))
         \o Escape(SubSeq(chars, Len(chars) \div 2 + 1, Len(chars)))

RECURSIVE NumChars(_)
NumChars(n) ==
    IF n < 10 THEN <<Digits[n + 1]>>
    ELSE Append(NumChars(n \div 10), Digits[(n % 10) + 1])

\* json.dumps(v) with the default separators ", " and ": "
RECURSIVE Dumps(_), DumpsItems(_), DumpsMembers(_, _)
Dumps(v) ==
    CASE v.t = "null" -> <<"null">>
      [] v.t = "bool" -> IF v.b THEN <<"true">> ELSE <<"false">>
      [] v.t = "num"  -> NumChars(v.n)
      [] v.t = "str"  -> <<"\"">> \o Escape(v.s) \o <<"\"">>
      [] v.t = "list" -> <<"[">> \o DumpsItems(v.items) \o <<"]">>
      [] v.t = "dict" -> <<"{">> \o DumpsMembers(v.keys, v.vals) \o <<"}">>

DumpsItems(items) ==
    IF items = <<>> THEN <<>>
    ELSE IF Len(items) = 1 THEN Dumps(items[1])
    ELSE Dumps(items[1]) \o <<",", " ">> \o DumpsItems(Tail(items))

DumpsMembers(keys, vals) ==
    IF keys = <<>> THEN <<>>
    ELSE LET m == <<"\"">> \o Escape(keys[1]) \o <<"\"", ":", " ">>
                    \o Dumps(vals[1])
         IN  IF Len(keys) = 1 THEN m
             ELSE m \o <<",", " ">> \o DumpsMembers(Tail(keys), Tail(vals))

----------------------------------------------------------------------------
(* ConversationViewer._looks_like_json and _expand_nested_json *)

StartsWith(s, c) == Len(s) >= 1 /\ s[1] = c

EndsWith(s, c) == Len(s) >= 1 /\ s[Len(s)] = c

\* ConversationViewer._looks_like_json
CVLooksLikeJson(chars) ==
    IF chars = <<>> THEN FALSE
    ELSE LET stripped == Strip(chars)
         IN  \/ StartsWith(stripped, "{") /\ EndsWith(stripped, "}")
             \/ StartsWith(stripped, "[") /\ EndsWith(stripped, "]")

\* An exception that leaves an expansion function: json.loads raised it and
\* no except clause of the function names it
Escapes(e) == [t |-> "raise", exc |-> e]

\* The except clause (json.JSONDecodeError, ValueError)
Caught(e) == e \in {"JSONDecodeError", "ValueError"}

\* The first exception among the results of a comprehension, if any
FirstRaise(results) ==
    LET raising == {i \in 1..Len(results) : results[i].t = "raise"}
    IN  IF raising = {} THEN NotSet
        ELSE results[CHOOSE i \in raising : \A k \in raising : i <= k]

\* [f(item) for item in obj]
ListOf(results) ==
    Only({ IF FirstRaise(rs) # NotSet THEN FirstRaise(rs) ELSE JList(rs)
           : rs \in {results} })

\* {k: f(v) for k, v in obj.items()}
DictOf(keys, results) ==
    Only({ IF FirstRaise(rs) # NotSet THEN FirstRaise(rs) ELSE JDict(keys, rs)
           : rs \in {results} })

RECURSIVE CVExpand(_, _)

\* Mutant: a parsed string is returned as parsed, without expanding it.
CVExpandByTypeShallow(o, depth) ==
    CASE o.t = "str" ->
            IF ~CVLooksLikeJson(o.s) THEN o
            ELSE Only({ IF parsed.ok THEN parsed.val
                        ELSE IF Caught(parsed.exc) THEN o
                        ELSE Escapes(parsed.exc)
                        : parsed \in {Loads(o.s)} })
      [] o.t = "dict" ->
            DictOf(o.keys, [i \in 1..Len(o.vals) |-> CVExpand(o.vals[i], depth - 1)])
      [] o.t = "list" ->
            ListOf([i \in 1..Len(o.items) |-> CVExpand(o.items[i], depth - 1)])
      [] OTHER -> o

\* lines 286-304: the branches on the type of obj
CVExpandByType(o, depth) ==
    CASE o.t = "str" ->
            IF ~CVLooksLikeJson(o.s) THEN o
            ELSE Only({ IF parsed.ok THEN CVExpand(parsed.val, depth - 1)
                        ELSE IF Caught(parsed.exc) THEN o
                        ELSE Escapes(parsed.exc)
                        : parsed \in {Loads(o.s)} })
      [] o.t = "dict" ->
            DictOf(o.keys, [i \in 1..Len(o.vals) |-> CVExpand(o.vals[i], depth - 1)])
      [] o.t = "list" ->
            ListOf([i \in 1..Len(o.items) |-> CVExpand(o.items[i], depth - 1)])
      [] OTHER -> o

\* Mutant: the depth test is off by one (max_depth < 0).
CVExpandOffByOne(o, depth) ==
    IF depth < 0 THEN o ELSE CVExpandByType(o, depth)

\* ConversationViewer._expand_nested_json(obj, max_depth)
CVExpand(o, depth) ==
    IF depth <= 0 THEN o ELSE CVExpandByType(o, depth)

\* default value of max_depth
DefaultMaxDepth == 5

----------------------------------------------------------------------------
(* JSONViewer._expand_nested_json *)

\* lines 432-435; an exception raised while content is computed leaves the
\* function
NestedWrapper(content) ==
    Only({ IF c.t = "raise" THEN c
           ELSE JDict(<<<<"_nested_json_">>, <<"_content_">>>>, <<JBool(TRUE), c>>)
           : c \in {content} })

RECURSIVE JVExpand(_)

\* Mutant: every string that json.loads accepts is wrapped.
JVExpandAnyJson(o) ==
    CASE o.t = "dict" ->
            DictOf(o.keys, [i \in 1..Len(o.vals) |-> JVExpand(o.vals[i])])
      [] o.t = "list" ->
            ListOf([i \in 1..Len(o.items) |-> JVExpand(o.items[i])])
      [] o.t = "str" ->
            Only({ IF nested.ok THEN NestedWrapper(JVExpand(nested.val))
                   ELSE IF Caught(nested.exc) THEN o
                   ELSE Escapes(nested.exc)
                   : nested \in {Loads(Strip(o.s))} })
      [] OTHER -> o

\* JSONViewer._expand_nested_json(obj)
JVExpand(o) ==
    CASE o.t = "dict" ->
            DictOf(o.keys, [i \in 1..Len(o.vals) |-> JVExpand(o.vals[i])])
      [] o.t = "list" ->
            ListOf([i \in 1..Len(o.items) |-> JVExpand(o.items[i])])
      [] o.t = "str" ->
            LET stripped == Strip(o.s)
            IN  IF ~(Len(stripped) > 1
                     /\ (StartsWith(stripped, "{") \/ StartsWith(stripped, "[")))
                THEN o
                ELSE Only({ IF nested.ok THEN NestedWrapper(JVExpand(nested.val))
                            ELSE IF Caught(nested.exc) THEN o
                            ELSE Escapes(nested.exc)
                            : nested \in {Loads(stripped)} })
      [] OTHER -> o

----------------------------------------------------------------------------
(* Inputs and calls of the two expansion functions *)

\* Largest number of wrappings (list, map, JSON encoding) around a leaf.
MaxWrap == 5

\* RecursionLimit + 1 opening brackets and one closing bracket
DeepBrackets == [i \in 1..(RecursionLimit + 2) |->
                    IF i <= RecursionLimit + 1 THEN "[" ELSE "]"]

Leaves ==
    {JNull, JBool(TRUE), JNum(1), JNum(42),
     JStr(<<>>), JStr(<<"x">>),
     JStr(<<"{", "x", "}">>),                 \* JSON-shaped, does not parse
     JStr(<<"[", "1">>),                      \* starts like JSON, no end
     JStr(<<" ", "[", "1", "]", " ">>),       \* padded JSON array
     JStr(DeepBrackets)}                      \* not JSON, deeper than the limit

WrapKinds == {"list", "dict", "encode"}

Wrap(kind, v) ==
    CASE kind = "list"   -> JList(<<v>>)
      [] kind = "dict"   -> JDict(<<<<"k">>>>, <<v>>)
      [] kind = "encode" -> JStr(Dumps(v))

RECURSIVE ValuesOf(_)
ValuesOf(n) ==
    IF n = 0 THEN Leaves
    ELSE LET inner == ValuesOf(n - 1)
         IN  inner \cup {Wrap(k, v) : k \in WrapKinds, v \in inner}

Values == ValuesOf(MaxWrap)

\* The depths the expansion is called with
Depths == {-1, 0, 1, 2, DefaultMaxDepth}

JsonInit ==
    /\ obj \in Values
    /\ max_depth = DefaultMaxDepth
    /\ expanded = NotSet
    /\ again = NotSet
    /\ pc = "call"
    /\ text = <<>> /\ matches = <<>> /\ mi = 1 /\ sections = <<>>
    /\ current_section_type = "plain" /\ current_section_start = 0
    /\ section_stack = <<>>
    /\ turn = NotSet /\ panel = NotSet
    /\ ViewIdle

\* ConversationViewer._expand_nested_json(obj, d)
CVCall ==
    /\ pc = "call"
    /\ \E d \in Depths :
        /\ max_depth' = d
        /\ expanded' = CVExpand(obj, d)
    /\ pc' = "cv_done"
    /\ UNCHANGED <<obj, again, parseVars, turnVars, viewVars>>

\* ConversationViewer._expand_nested_json on the value a call returned
CVCallAgain ==
    /\ pc = "cv_done"
    /\ expanded.t # "raise"
    /\ again' = CVExpand(expanded, max_depth)
    /\ pc' = "cv_twice"
    /\ UNCHANGED <<obj, max_depth, expanded, parseVars, turnVars, viewVars>>

\* JSONViewer._expand_nested_json(obj)
JVCall ==
    /\ pc = "call"
    /\ expanded' = JVExpand(obj)
    /\ pc' = "jv_done"
    /\ UNCHANGED <<obj, max_depth, again, parseVars, turnVars, viewVars>>

\* JSONViewer._expand_nested_json on the value a call returned
JVCallAgain ==
    /\ pc = "jv_done"
    /\ expanded.t # "raise"
    /\ again' = JVExpand(expanded)
    /\ pc' = "jv_twice"
    /\ UNCHANGED <<obj, max_depth, expanded, parseVars, turnVars, viewVars>>

JsonNext ==
    \/ CVCall
    \/ CVCallAgain
    \/ JVCall
    \/ JVCallAgain

JsonSpec == JsonInit /\ [][JsonNext]_vars

----------------------------------------------------------------------------
(* Python operations the turn renderers use                                *)
(*                                                                         *)
(* The strings of a turn are sequences of single characters, except field  *)
(* names, role names and the fixed labels, which are one lexeme each.      *)

\* A field that is not in the record
Absent == [t |-> "absent"]

\* The dict with the given <<key, value>> pairs, absent fields left out
RECURSIVE MkDict(_)
MkDict(pairs) ==
    IF pairs = <<>> THEN JDict(<<>>, <<>>)
    ELSE LET d == MkDict(Front(pairs))
             kv == Last(pairs)
         IN  IF kv[2] = Absent THEN d
             ELSE JDict(Append(d.keys, <<kv[1]>>), Append(d.vals, kv[2]))

\* d.get(key, default)
Get(d, key, default) ==
    IF \E i \in 1..Len(d.keys) : d.keys[i] = <<key>>
    THEN d.vals[CHOOSE i \in 1..Len(d.keys) : d.keys[i] = <<key>>]
    ELSE default

\* bool(v)
Truthy(v) ==
    CASE v.t = "null" -> FALSE
      [] v.t = "bool" -> v.b
      [] v.t = "num"  -> v.n # 0
      [] v.t = "str"  -> v.s # <<>>
      [] v.t = "list" -> v.items # <<>>
      [] v.t = "dict" -> v.keys # <<>>

\* What a call returns, or the exception it raises
Returned(v) == [exc |-> "", val |-> v]

Raised(e) == [exc |-> e, val |-> NotSet]

\* for x in v: the values iterated, or TypeError for a value not iterable
Iterate(v) ==
    CASE v.t = "list" -> Returned(v.items)
      [] v.t = "str"  -> Returned([i \in 1..Len(v.s) |-> JStr(<<v.s[i]>>)])
      [] v.t = "dict" -> Returned([i \in 1..Len(v.keys) |-> JStr(v.keys[i])])
      [] OTHER        -> Raised("TypeError")

RECURSIVE DoubleBackslashes(_)
DoubleBackslashes(chars) ==
    IF chars = <<>> THEN <<>>
    ELSE IF Len(chars) = 1
    THEN (IF chars[1] = "\\" THEN <<"\\", "\\">> ELSE <<chars[1]>>)
    ELSE DoubleBackslashes(SubSeq(chars, 1, Len(chars) \div 2))
         \o DoubleBackslashes(SubSeq(chars, Len(chars) \div 2 + 1, Len(chars)))

\* A Python value that is not a JSON value (a set, a datetime, ...): json.dumps
\* raises TypeError on it
PyObject == [t |-> "object"]

\* json.dumps(v) returns
RECURSIVE Serializable(_)
Serializable(v) ==
    CASE v.t = "object" -> FALSE
      [] v.t = "list"   -> \A i \in 1..Len(v.items) : Serializable(v.items[i])
      [] v.t = "dict"   -> \A i \in 1..Len(v.vals) : Serializable(v.vals[i])
      [] OTHER          -> TRUE

\* repr(v); no string of the model holds a single quote
RECURSIVE PyRepr(_), PyReprItems(_), PyReprMembers(_, _)
PyRepr(v) ==
    CASE v.t = "null" -> <<"None">>
      [] v.t = "object" -> <<"<object>">>
      [] v.t = "bool" -> IF v.b THEN <<"True">> ELSE <<"False">>
      [] v.t = "num"  -> NumChars(v.n)
      [] v.t = "str"  -> <<"'">> \o DoubleBackslashes(v.s) \o <<"'">>
      [] v.t = "list" -> <<"[">> \o PyReprItems(v.items) \o <<"]">>
      [] v.t = "dict" -> <<"{">> \o PyReprMembers(v.keys, v.vals) \o <<"}">>

PyReprItems(items) ==
    IF items = <<>> THEN <<>>
    ELSE IF Len(items) = 1 THEN PyRepr(items[1])
    ELSE PyRepr(items[1]) \o <<",", " ">> \o PyReprItems(Tail(items))

PyReprMembers(keys, vals) ==
    IF keys = <<>> THEN <<>>
    ELSE LET m == PyRepr(JStr(keys[1])) \o <<":", " ">> \o PyRepr(vals[1])
         IN  IF Len(keys) = 1 THEN m
             ELSE m \o <<",", " ">> \o PyReprMembers(Tail(keys), Tail(vals))

\* str(v)
PyStr(v) == IF v.t = "str" THEN v.s ELSE PyRepr(v)

\* indent parameter of _format_json_with_syntax
JsonIndent == 2

Spaces(n) == [i \in 1..n |-> " "]

\* json.dumps(v, indent=2) from nesting level `level`
RECURSIVE DumpsIndent(_, _), DumpsIndentItems(_, _), DumpsIndentMembers(_, _, _)
DumpsIndent(v, level) ==
    CASE v.t = "list" ->
            IF v.items = <<>> THEN <<"[", "]">>
            ELSE <<"[", "\n">> \o DumpsIndentItems(v.items, level + 1)
                 \o <<"\n">> \o Spaces(JsonIndent * level) \o <<"]">>
      [] v.t = "dict" ->
            IF v.keys = <<>> THEN <<"{", "}">>
            ELSE <<"{", "\n">> \o DumpsIndentMembers(v.keys, v.vals, level + 1)
                 \o <<"\n">> \o Spaces(JsonIndent * level) \o <<"}">>
      [] OTHER -> Dumps(v)

DumpsIndentItems(items, level) ==
    Spaces(JsonIndent * level) \o DumpsIndent(items[1], level)
        \o (IF Len(items) = 1 THEN <<>>
            ELSE <<",", "\n">> \o DumpsIndentItems(Tail(items), level))

DumpsIndentMembers(keys, vals, level) ==
    Spaces(JsonIndent * level) \o <<"\"">> \o Escape(keys[1]) \o <<"\"", ":", " ">>
        \o DumpsIndent(vals[1], level)
        \o (IF Len(keys) = 1 THEN <<>>
            ELSE <<",", "\n">>
                 \o DumpsIndentMembers(Tail(keys), Tail(vals), level))

----------------------------------------------------------------------------
(* ConversationViewer: the turn renderers *)

\* rich renderables
Text(chars, style) == [r |-> "Text", text |-> chars, style |-> style]

BlankLine == [r |-> "Text", text |-> <<>>, style |-> ""]

Syntax(code) == [r |-> "Syntax", code |-> code]

Panel(title, index, body) ==
    [t |-> "panel", title |-> title, index |-> index, body |-> body]

\* ConversationViewer._format_json_with_syntax: the Syntax block, or the
\* exception that leaves _expand_nested_json
format_json_with_syntax(data) ==
    Only({ IF e.t = "raise" THEN Raised(e.exc)
           ELSE Returned(Syntax(DumpsIndent(e, 0)))
           : e \in {CVExpand(data, DefaultMaxDepth)} })

\* try: _format_json_with_syntax(data) / except: the fallback block
TryFormat(data, fallback) ==
    Only({ IF r.exc # "" THEN fallback ELSE r.val
           : r \in {format_json_with_syntax(data)} })

\* the list `texts` of _extract_content_text (lines 251-258)
RECURSIVE ContentTexts(_)
ContentTexts(items) ==
    IF items = <<>> THEN <<>>
    ELSE LET item == items[1]
             rest == ContentTexts(Tail(items))
         IN  IF item.t = "dict"
             THEN LET tx == Get(item, "text", JStr(<<>>))
                  IN  IF Truthy(tx) THEN <<tx>> \o rest ELSE rest
             ELSE IF item.t = "str" THEN <<item>> \o rest
             ELSE rest

\* "\n".join(texts) for strings
RECURSIVE JoinLines(_)
JoinLines(texts) ==
    IF texts = <<>> THEN <<>>
    ELSE IF Len(texts) = 1 THEN texts[1].s
    ELSE texts[1].s \o <<"\n">> \o JoinLines(Tail(texts))

\* ConversationViewer._extract_content_text
extract_content_text(content) ==
    IF ~Truthy(content) THEN Returned(JStr(<<>>))
    ELSE CASE content.t = "str" -> Returned(content)
           [] content.t = "list" ->
                LET texts == ContentTexts(content.items)
                IN  IF \A i \in 1..Len(texts) : texts[i].t = "str"
                    THEN Returned(JStr(JoinLines(texts)))
                    ELSE Raised("TypeError")      \* join of a non-string
           [] content.t = "dict" ->
                Returned(Get(content, "text", JStr(PyStr(content))))
           [] OTHER -> Returned(JStr(PyStr(content)))

\* length from which a System content is truncated
SystemLimit == 500

TruncationNote == "\n\n... [truncated, full content available in raw data]"

\* Mutant: the content is truncated from 500 characters on (>= for >).
render_system_turn_truncates_at_limit(tn, index) ==
    LET c == extract_content_text(Get(tn, "content", JNull))
    IN  IF c.exc # "" THEN c
        ELSE IF c.val.t # "str" THEN Raised("TypeError")
        ELSE LET content ==
                     IF Len(c.val.s) >= SystemLimit
                     THEN Append(SubSeq(c.val.s, 1, SystemLimit), TruncationNote)
                     ELSE c.val.s
             IN  Returned(Panel("System", index, <<Text(content, "dim")>>))

\* ConversationViewer._render_system_turn
render_system_turn(tn, index) ==
    LET c == extract_content_text(Get(tn, "content", JNull))
    IN  IF c.exc # "" THEN c
        ELSE IF c.val.t # "str" THEN Raised("TypeError")  \* len / Text of a non-string
        ELSE LET content ==
                     IF Len(c.val.s) > SystemLimit
                     THEN Append(SubSeq(c.val.s, 1, SystemLimit), TruncationNote)
                     ELSE c.val.s
             IN  Returned(Panel("System", index, <<Text(content, "dim")>>))

\* ConversationViewer._render_user_turn
render_user_turn(tn, index) ==
    LET c == extract_content_text(Get(tn, "content", JNull))
    IN  IF c.exc # "" THEN c
        ELSE IF c.val.t # "str" THEN Raised("TypeError")  \* Text of a non-string
        ELSE Returned(Panel("User", index, <<Text(c.val.s, "blue")>>))

\* lines 133-138: the thinking block
ThinkingBlocks(tn) ==
    LET rationale == Get(tn, "rationale", JNull)
    IN  IF ~Truthy(rationale) THEN Returned(<<>>)
        ELSE IF rationale.t # "str" THEN Raised("TypeError")  \* Text.append
        ELSE Returned(<<Text(<<"Thinking:\n">> \o rationale.s, "italic yellow"),
                        BlankLine>>)

\* lines 144-156: the blocks of one tool call
ToolCallBlocks(tc) ==
    IF tc.t # "dict" THEN Raised("AttributeError")        \* tc.get
    ELSE LET name == Get(tc, "name", JStr(<<"unknown">>))
             params == Get(tc, "parameters", JDict(<<>>, <<>>))
         IN  IF name.t # "str" THEN Raised("TypeError")   \* Text.append
             ELSE Returned(
                    <<Text(<<"Tool Call: ">> \o name.s, "bold magenta")>>
                    \o (IF Truthy(params)
                        THEN <<TryFormat(params, Text(PyStr(params), "dim"))>>
                        ELSE <<>>)
                    \o <<BlankLine>>)

\* the loop's renderables, given each element's blocks in order; the first
\* exception ends the loop
RECURSIVE ForEach(_)
ForEach(blocks) ==
    IF blocks = <<>> THEN Returned(<<>>)
    ELSE LET h == blocks[1]
         IN  IF h.exc # "" THEN h
             ELSE LET r == ForEach(Tail(blocks))
                  IN  IF r.exc # "" THEN r ELSE Returned(h.val \o r.val)

\* lines 141-156: the tool calls
ToolCallsBlocks(tn) ==
    LET tool_calls == Get(tn, "tool_calls", JNull)
    IN  IF ~Truthy(tool_calls) THEN Returned(<<>>)
        ELSE LET it == Iterate(tool_calls)
             IN  IF it.exc # "" THEN it
                 ELSE ForEach([i \in 1..Len(it.val) |-> ToolCallBlocks(it.val[i])])

\* lines 159-163: the response block
ResponseBlocks(tn) ==
    LET c == extract_content_text(Get(tn, "content", JNull))
    IN  IF c.exc # "" THEN c
        ELSE IF ~Truthy(c.val) THEN Returned(<<>>)
        ELSE IF c.val.t # "str" THEN Raised("TypeError")  \* Text.append
        ELSE Returned(<<Text(<<"Response:\n">> \o c.val.s, "italic green")>>)

\* Mutant: the response block is appended before the thinking block and the
\* tool calls.
render_chatbot_turn_response_first(tn, index) ==
    LET th == ThinkingBlocks(tn)
    IN  IF th.exc # "" THEN th
        ELSE LET tc == ToolCallsBlocks(tn)
             IN  IF tc.exc # "" THEN tc
                 ELSE LET rs == ResponseBlocks(tn)
                      IN  IF rs.exc # "" THEN rs
                          ELSE LET renderables == rs.val \o th.val \o tc.val
                               IN  Returned(Panel("Chatbot", index,
                                       IF renderables = <<>>
                                       THEN <<Text(<<"[No content]">>, "dim")>>
                                       ELSE renderables))

\* Mutant: the placeholder is appended whenever there is no response block.
render_chatbot_turn_placeholder_without_response(tn, index) ==
    LET th == ThinkingBlocks(tn)
    IN  IF th.exc # "" THEN th
        ELSE LET tc == ToolCallsBlocks(tn)
             IN  IF tc.exc # "" THEN tc
                 ELSE LET rs == ResponseBlocks(tn)
                      IN  IF rs.exc # "" THEN rs
                          ELSE LET renderables == th.val \o tc.val \o rs.val
                               IN  Returned(Panel("Chatbot", index,
                                       IF rs.val = <<>>
                                       THEN Append(renderables,
                                                Text(<<"[No content]">>, "dim"))
                                       ELSE renderables))

\* ConversationViewer._render_chatbot_turn
render_chatbot_turn(tn, index) ==
    LET th == ThinkingBlocks(tn)
    IN  IF th.exc # "" THEN th
        ELSE LET tc == ToolCallsBlocks(tn)
             IN  IF tc.exc # "" THEN tc
                 ELSE LET rs == ResponseBlocks(tn)
                      IN  IF rs.exc # "" THEN rs
                          ELSE LET renderables == th.val \o tc.val \o rs.val
                               IN  Returned(Panel("Chatbot", index,
                                       IF renderables = <<>>
                                       THEN <<Text(<<"[No content]">>, "dim")>>
                                       ELSE renderables))

\* lines 187-209: the block of one output
OutputBlocks(output) ==
    IF output.t # "dict" THEN Returned(<<Text(PyStr(output), "yellow")>>)
    ELSE LET text_content == Get(output, "text", JStr(<<>>))
             plain == Text(text_content.s, "yellow")
         IN  IF ~Truthy(text_content)
             THEN Returned(<<TryFormat(output, Text(PyStr(output), "yellow"))>>)
             ELSE IF text_content.t # "str"
             THEN Raised("AttributeError")                 \* text.strip()
             ELSE IF ~CVLooksLikeJson(text_content.s) THEN Returned(<<plain>>)
             ELSE LET parsed == Loads(text_content.s)
                  IN  IF parsed.ok THEN Returned(<<TryFormat(parsed.val, plain)>>)
                      ELSE Returned(<<plain>>)             \* bare except

\* lines 182-211: the blocks of one tool result
ToolResultBlocks(tr) ==
    IF tr.t # "dict" THEN Raised("AttributeError")        \* tr.get
    ELSE LET tool_call_id == Get(tr, "tool_call_id", JStr(<<"unknown">>))
             it == Iterate(Get(tr, "outputs", JList(<<>>)))
         IN  IF it.exc # "" THEN it
             ELSE LET outs == ForEach([i \in 1..Len(it.val) |-> OutputBlocks(it.val[i])])
                  IN  IF outs.exc # "" THEN outs
                      ELSE Returned(
                             <<Text(<<"Result for: ">> \o PyStr(tool_call_id),
                                    "bold yellow")>>
                             \o outs.val \o <<BlankLine>>)

\* ConversationViewer._render_tool_turn
render_tool_turn(tn, index) ==
    LET it == Iterate(Get(tn, "tool_results", JList(<<>>)))
    IN  IF it.exc # "" THEN it
        ELSE LET rs == ForEach([i \in 1..Len(it.val) |-> ToolResultBlocks(it.val[i])])
             IN  IF rs.exc # "" THEN rs
                 ELSE Returned(Panel("Tool Results", index,
                         IF rs.val = <<>>
                         THEN <<Text(<<"[No tool results]">>, "dim")>>
                         ELSE rs.val))

\* Mutant: no except clause around json.dumps.
render_unknown_turn_no_fallback(tn, index) ==
    IF Serializable(tn)
    THEN Returned(Panel("Unknown Turn Type", index, <<Syntax(DumpsIndent(tn, 0))>>))
    ELSE Raised("TypeError")

\* ConversationViewer._render_unknown_turn
render_unknown_turn(tn, index) ==
    IF Serializable(tn)
    THEN Returned(Panel("Unknown Turn Type", index, <<Syntax(DumpsIndent(tn, 0))>>))
    ELSE Returned(Panel("Unknown Turn Type", index, <<Text(PyStr(tn), "red")>>))

\* role = turn.get("role", "Unknown")
RoleOf(tn) == Get(tn, "role", JStr(<<"Unknown">>))

----------------------------------------------------------------------------
(* Turn records and calls of _render_turn *)

\* Largest number of tool calls of a turn
MaxToolCalls == 2

\* Largest number of outputs of a tool result
MaxOutputs == 2

TextBlock(chars) ==
    MkDict(<< <<"text", JStr(chars)>>, <<"content_type", JStr(<<"text">>)>> >>)

JsonText == Dumps(JDict(<<<<"a">>>>, <<JNum(1)>>))

ContentValues ==
    {Absent, JNull, JStr(<<>>), JStr(<<"h", "i">>), JNum(5),
     JList(<<TextBlock(<<"a">>)>>),
     JList(<<TextBlock(<<"a">>), JStr(<<"b">>)>>),
     MkDict(<< <<"text", JStr(<<"t">>)>> >>),
     JList(<<MkDict(<< <<"text", JNum(5)>> >>)>>)}

\* n characters, the last one different from the others
CharsOf(n) == [i \in 1..n |-> IF i < n THEN "A" ELSE "z"]

\* Contents around the length from which a System content is truncated
LongContentValues ==
    {JStr(CharsOf(SystemLimit - 1)), JStr(CharsOf(SystemLimit)),
     JStr(CharsOf(SystemLimit + 1)),
     JList(<<TextBlock(CharsOf(SystemLimit))>>),
     JList(<<TextBlock(CharsOf(SystemLimit + 1))>>),
     JList(<<TextBlock(CharsOf(SystemLimit)), TextBlock(<<"a">>)>>)}

RationaleValues == {Absent, JNull, JStr(<<>>), JStr(<<"t", "h">>)}

ToolCallEntries ==
    {MkDict(<< <<"name", JStr(<<"f">>)>>, <<"parameters", JDict(<<>>, <<>>)>> >>),
     MkDict(<< <<"name", JStr(<<"g">>)>>,
               <<"parameters", MkDict(<< <<"q", JStr(JsonText)>> >>)>> >>),
     MkDict(<< <<"parameters", JStr(<<"x">>)>> >>),
     MkDict(<< <<"name", JStr(<<"f">>)>>, <<"parameters", JNull>> >>),
     JNull}

RECURSIVE SeqsUpTo(_, _)
SeqsUpTo(S, n) ==
    IF n = 0 THEN {<<>>}
    ELSE LET shorter == SeqsUpTo(S, n - 1)
         IN  shorter \cup {Append(q, x) : q \in shorter, x \in S}

ToolCallsValues ==
    {Absent, JNull, JNum(5)}
        \cup {JList(q) : q \in SeqsUpTo(ToolCallEntries, MaxToolCalls)}

OutputEntries ==
    {MkDict(<< <<"text", JStr(<<"n", "o">>)>>, <<"type", JStr(<<"text">>)>> >>),
     MkDict(<< <<"text", JStr(JsonText)>>, <<"type", JStr(<<"json">>)>> >>),
     MkDict(<< <<"text", JStr(<<"{", "x", "}">>)>> >>),
     MkDict(<< <<"type", JStr(<<"text">>)>> >>),
     MkDict(<< <<"text", JNum(5)>> >>),
     MkDict(<< <<"text", JStr(<<>>)>> >>),
     MkDict(<< <<"text", JStr(DeepBrackets)>> >>),
     MkDict(<< <<"text", JStr(Dumps(JList(<<JStr(DeepBrackets)>>)))>> >>),
     MkDict(<< <<"data", JStr(DeepBrackets)>> >>),
     JStr(<<"r">>)}

OutputsValues ==
    {Absent, JNull} \cup {JList(q) : q \in SeqsUpTo(OutputEntries, MaxOutputs)}

ToolResultEntries ==
    {JNull}
        \cup {MkDict(<< <<"outputs", o>>, <<"tool_call_id", JStr(<<"c">>)>> >>) :
                o \in OutputsValues}

PlainResult ==
    MkDict(<< <<"outputs", JList(<<JStr(<<"r">>)>>)>> >>)

ToolResultsValues ==
    {Absent, JNull, JNum(5), JList(<<>>)}
        \cup {JList(<<tr>>) : tr \in ToolResultEntries}
        \cup {JList(<<tr, PlainResult>>) : tr \in ToolResultEntries}

TurnOf(role, content, rationale, tool_calls, tool_results) ==
    MkDict(<< <<"role", role>>, <<"content", content>>,
              <<"rationale", rationale>>, <<"tool_calls", tool_calls>>,
              <<"tool_results", tool_results>> >>)

Turns ==
    {TurnOf(r, c, JNull, JNull, JNull) :
        r \in {JStr(<<"System">>), JStr(<<"User">>), JStr(<<"UnknownRole">>),
               JStr(<<"system">>), JNum(5), JNull, Absent},
        c \in ContentValues}
    \cup {TurnOf(r, c, JNull, JNull, JNull) :
            r \in {JStr(<<"System">>), JStr(<<"User">>)},
            c \in LongContentValues}
    \cup {TurnOf(r, JList(<<PyObject>>), JNull, JNull, JNull) :
            r \in {JStr(<<"UnknownRole">>), Absent}}
    \cup {TurnOf(JStr(<<"Chatbot">>), c, ra, tcs, JNull) :
            c \in ContentValues, ra \in RationaleValues, tcs \in ToolCallsValues}
    \cup {TurnOf(JStr(<<"Tool">>), JNull, JNull, JNull, trs) :
            trs \in ToolResultsValues}

TurnIndexes == {0, 1}

TurnInit ==
    /\ turn \in Turns
    /\ panel = NotSet
    /\ ViewIdle
    /\ pc = "render"
    /\ text = <<>> /\ matches = <<>> /\ mi = 1 /\ sections = <<>>
    /\ current_section_type = "plain" /\ current_section_start = 0
    /\ section_stack = <<>>
    /\ obj = NotSet /\ max_depth = 0 /\ expanded = NotSet /\ again = NotSet

\* _render_turn returns the panel or lets the exception through
Finish(result) ==
    /\ panel' = result
    /\ pc' = IF result.exc = "" THEN "rendered" ELSE "raised"
    /\ UNCHANGED <<turn, parseVars, jsonVars, viewVars>>

\* _render_turn, role == "System"
RenderSystem ==
    /\ pc = "render"
    /\ RoleOf(turn) = JStr(<<"System">>)
    /\ \E index \in TurnIndexes : Finish(render_system_turn(turn, index))

\* _render_turn, role == "User"
RenderUser ==
    /\ pc = "render"
    /\ RoleOf(turn) = JStr(<<"User">>)
    /\ \E index \in TurnIndexes : Finish(render_user_turn(turn, index))

\* _render_turn, role == "Chatbot"
RenderChatbot ==
    /\ pc = "render"
    /\ RoleOf(turn) = JStr(<<"Chatbot">>)
    /\ \E index \in TurnIndexes : Finish(render_chatbot_turn(turn, index))

\* _render_turn, role == "Tool"
RenderTool ==
    /\ pc = "render"
    /\ RoleOf(turn) = JStr(<<"Tool">>)
    /\ \E index \in TurnIndexes : Finish(render_tool_turn(turn, index))

\* _render_turn, any other role
RenderUnknown ==
    /\ pc = "render"
    /\ RoleOf(turn) \notin {JStr(<<"System">>), JStr(<<"User">>),
                            JStr(<<"Chatbot">>), JStr(<<"Tool">>)}
    /\ \E index \in TurnIndexes : Finish(render_unknown_turn(turn, index))

TurnNext ==
    \/ RenderSystem
    \/ RenderUser
    \/ RenderChatbot
    \/ RenderTool
    \/ RenderUnknown

TurnSpec == TurnInit /\ [][TurnNext]_vars

----------------------------------------------------------------------------
(* ConversationViewer._update_display *)

\* ConversationViewer._render_turn
render_turn(tn, index) ==
    LET role == RoleOf(tn)
    IN  IF role = JStr(<<"System">>) THEN render_system_turn(tn, index)
        ELSE IF role = JStr(<<"User">>) THEN render_user_turn(tn, index)
        ELSE IF role = JStr(<<"Chatbot">>) THEN render_chatbot_turn(tn, index)
        ELSE IF role = JStr(<<"Tool">>) THEN render_tool_turn(tn, index)
        ELSE render_unknown_turn(tn, index)

\* Largest number of turns of a conversation
MaxTurns == 3

\* What the content widget shows: a line of text or a Group of renderables
ShowsText(line) == [shows |-> "text", line |-> line]

Group(items) == [shows |-> "group", items |-> items]

ConversationTurns ==
    {TurnOf(JStr(<<"System">>), JList(<<TextBlock(<<"p">>)>>), JNull, JNull, JNull),
     TurnOf(JStr(<<"User">>), JStr(<<"h", "i">>), JNull, JNull, JNull),
     TurnOf(JStr(<<"Chatbot">>), JStr(<<"o", "k">>), JStr(<<"t", "h">>),
            JList(<<MkDict(<< <<"name", JStr(<<"f">>)>> >>)>>), JNull),
     TurnOf(JStr(<<"Tool">>), JNull, JNull, JNull, JList(<<PlainResult>>)),
     TurnOf(JStr(<<"Tool">>), JNull, JNull, JNull, JNull),
     TurnOf(JStr(<<"UnknownRole">>), JStr(<<"h", "i">>), JNull, JNull, JNull)}

Conversations == SeqsUpTo(ConversationTurns, MaxTurns)

\* The widget after compose (or before it: no content widget) and a
\* conversation (or None) set
DisplayInit ==
    /\ conversation \in {JNull} \cup {JList(q) : q \in Conversations}
    /\ display \in {NotSet, ShowsText("Loading conversation...")}
    /\ ti = 0
    /\ panels = <<>>
    /\ pc = "update"
    /\ md_data = NotSet /\ has_markdown = NotSet
    /\ ShellIdle
    /\ turn = NotSet /\ panel = NotSet
    /\ text = <<>> /\ matches = <<>> /\ mi = 1 /\ sections = <<>>
    /\ current_section_type = "plain" /\ current_section_start = 0
    /\ section_stack = <<>>
    /\ obj = NotSet /\ max_depth = 0 /\ expanded = NotSet /\ again = NotSet

\* lines 60-61: no content widget, nothing is done
UpdateNoWidget ==
    /\ pc = "update"
    /\ display = NotSet
    /\ pc' = "done"
    /\ UNCHANGED <<displayVars, classifyVars, shellVars, parseVars, jsonVars,
                   turnVars>>

\* lines 63-65: no conversation, or an empty one
UpdateNoData ==
    /\ pc = "update"
    /\ display # NotSet
    /\ ~Truthy(conversation)
    /\ display' = ShowsText("No conversation data")
    /\ pc' = "done"
    /\ UNCHANGED <<conversation, ti, panels, classifyVars, shellVars, parseVars,
                   jsonVars, turnVars>>

\* line 67: the loop is entered
UpdateStart ==
    /\ pc = "update"
    /\ display # NotSet
    /\ Truthy(conversation)
    /\ panels' = <<>>
    /\ ti' = 0
    /\ pc' = "loop"
    /\ UNCHANGED <<conversation, display, classifyVars, shellVars, parseVars,
                   jsonVars, turnVars>>

\* lines 68-71: one turn of the loop; an exception of _render_turn leaves
\* _update_display
RenderNextTurn ==
    /\ pc = "loop"
    /\ ti < Len(conversation.items)
    /\ LET r == render_turn(conversation.items[ti + 1], ti)
       IN  IF r.exc = ""
           THEN /\ panels' = Append(panels, r.val)
                /\ ti' = ti + 1
                /\ pc' = "loop"
           ELSE /\ pc' = "raised"
                /\ UNCHANGED <<panels, ti>>
    /\ UNCHANGED <<conversation, display, classifyVars, shellVars, parseVars,
                   jsonVars, turnVars>>

\* lines 73-82: the widget is updated
UpdateShow ==
    /\ pc = "loop"
    /\ ti = Len(conversation.items)
    /\ display' = IF panels # <<>> THEN Group(panels)
                  ELSE ShowsText("Empty conversation")
    /\ pc' = "done"
    /\ UNCHANGED <<conversation, ti, panels, classifyVars, shellVars, parseVars,
                   jsonVars, turnVars>>

DisplayNext ==
    \/ UpdateNoWidget
    \/ UpdateNoData
    \/ UpdateStart
    \/ RenderNextTurn
    \/ UpdateShow

DisplaySpec == DisplayInit /\ [][DisplayNext]_vars

----------------------------------------------------------------------------
(* ConversationViewer: compose, on_mount and the conversation setter *)

\* No handler of the viewer is running
Quiescent == pc \in {"idle", "done", "raised"}

\* A new viewer (lines 28-32): nothing composed, nothing mounted, no
\* conversation
ViewerInit ==
    /\ conversation = JNull
    /\ display = NotSet
    /\ mounted = FALSE
    /\ was_set = FALSE
    /\ pc = "idle"
    /\ ti = 0 /\ panels = <<>>
    /\ active = "" /\ markdown_mode = <<>> /\ toggled = <<>>
    /\ n_samples = 0 /\ current_sample_index = 0
    /\ shown_sample = -1 /\ cursor_row = 0
    /\ md_data = NotSet /\ has_markdown = NotSet
    /\ turn = NotSet /\ panel = NotSet
    /\ text = <<>> /\ matches = <<>> /\ mi = 1 /\ sections = <<>>
    /\ current_section_type = "plain" /\ current_section_start = 0
    /\ section_stack = <<>>
    /\ obj = NotSet /\ max_depth = 0 /\ expanded = NotSet /\ again = NotSet

\* ConversationViewer.compose: the content widget is created
Compose ==
    /\ Quiescent
    /\ display = NotSet
    /\ display' = ShowsText("Loading conversation...")
    /\ pc' = "idle"
    /\ UNCHANGED <<conversation, ti, panels, classifyVars, shellVars, parseVars,
                   jsonVars, turnVars>>

\* The widget is mounted: is_mounted becomes true and on_mount runs, which
\* calls _update_display if a conversation is there
Mount ==
    /\ Quiescent
    /\ display # NotSet
    /\ ~mounted
    /\ mounted' = TRUE
    /\ pc' = IF conversation # JNull THEN "update" ELSE "idle"
    /\ UNCHANGED <<displayVars, classifyVars, was_set, appVars, parseVars,
                   jsonVars, turnVars>>

\* viewer.conversation = value: _update_display is called if the widget is
\* mounted
SetConversation ==
    /\ Quiescent
    /\ \E value \in {JNull}
                     \cup {JList(q) : q \in SeqsUpTo(ConversationTurns,
                                                     MaxTurns - 1)} :
          conversation' = value
    /\ was_set' = TRUE
    /\ pc' = IF mounted THEN "update" ELSE "idle"
    /\ UNCHANGED <<ti, panels, display, classifyVars, mounted, appVars,
                   parseVars, jsonVars, turnVars>>

ViewerNext ==
    \/ Compose
    \/ Mount
    \/ SetConversation
    \/ UpdateNoData
    \/ UpdateStart
    \/ RenderNextTurn
    \/ UpdateShow

ViewerSpec == ViewerInit /\ [][ViewerNext]_vars

----------------------------------------------------------------------------
(* BeeViewerApp: samples, tabs and the markdown toggle                     *)
(*                                                                         *)
(* What a viewer shows is computed from its data and its mode each time    *)
(* one of them changes; the data of the viewers are the fields of the      *)
(* sample shown_sample.                                                    *)

\* Largest number of samples of a loaded file
MaxSamples == 3

\* Largest number of presses of "m" that the history counts
MaxToggles == 3

\* The panes of the TabbedContent, in the order of compose (lines 121-137)
Tabs ==
    <<"tab-reward", "tab-outputs", "tab-inputs", "tab-metrics", "tab-debug",
      "tab-full">>

\* The JSONViewers of compose
Viewers ==
    {"json-outputs", "json-inputs", "json-metrics", "json-debug", "json-full"}

\* The JSONViewer that compose puts in a pane; "" for the reward pane, which
\* holds a RewardExplanationViewer
ViewerIn(tab) ==
    CASE tab = "tab-outputs" -> "json-outputs"
      [] tab = "tab-inputs" -> "json-inputs"
      [] tab = "tab-metrics" -> "json-metrics"
      [] tab = "tab-debug" -> "json-debug"
      [] tab = "tab-full" -> "json-full"
      [] OTHER -> ""

\* Mutant: the Inputs tab is mapped to the viewer of the Outputs tab.
tab_to_viewer_inputs_wrong ==
    [tab \in {Tabs[i] : i \in 1..Len(Tabs)} |->
        CASE tab = "tab-reward" -> ""
          [] tab = "tab-outputs" -> "json-outputs"
          [] tab = "tab-inputs" -> "json-outputs"
          [] tab = "tab-metrics" -> "json-metrics"
          [] tab = "tab-debug" -> "json-debug"
          [] tab = "tab-full" -> "json-full"]

\* The dict tab_to_viewer of action_toggle_markdown ("" for None)
tab_to_viewer ==
    [tab \in {Tabs[i] : i \in 1..Len(Tabs)} |->
        CASE tab = "tab-reward" -> ""
          [] tab = "tab-outputs" -> "json-outputs"
          [] tab = "tab-inputs" -> "json-inputs"
          [] tab = "tab-metrics" -> "json-metrics"
          [] tab = "tab-debug" -> "json-debug"
          [] tab = "tab-full" -> "json-full"]

\* The app after on_mount has loaded a file of n_samples samples
\* (load_jsonl_file): the first sample is shown if there is one, the first
\* tab is active and every viewer is in JSON mode
AppInit ==
    /\ n_samples \in 0..MaxSamples
    /\ current_sample_index = 0
    /\ shown_sample = IF n_samples > 0 THEN 0 ELSE -1
    /\ cursor_row = 0
    /\ active = Tabs[1]
    /\ markdown_mode = [v \in Viewers |-> FALSE]
    /\ toggled = [v \in Viewers |-> 0]
    /\ pc = "idle"
    /\ mounted = FALSE /\ was_set = FALSE
    /\ conversation = JNull /\ ti = 0 /\ panels = <<>> /\ display = NotSet
    /\ md_data = NotSet /\ has_markdown = NotSet
    /\ turn = NotSet /\ panel = NotSet
    /\ text = <<>> /\ matches = <<>> /\ mi = 1 /\ sections = <<>>
    /\ current_section_type = "plain" /\ current_section_start = 0
    /\ section_stack = <<>>
    /\ obj = NotSet /\ max_depth = 0 /\ expanded = NotSet /\ again = NotSet

\* What no action of the app changes
AppFrame ==
    UNCHANGED <<pc, n_samples, mountVars, displayVars, classifyVars, parseVars,
                jsonVars, turnVars>>

\* BeeViewerApp.show_sample(index)
show_sample(index) ==
    IF 0 <= index /\ index < n_samples
    THEN /\ current_sample_index' = index
         /\ shown_sample' = index
    ELSE UNCHANGED <<current_sample_index, shown_sample>>

\* show_sample is called with any index, in range or not
ShowSample ==
    /\ \E index \in -1..n_samples : show_sample(index)
    /\ UNCHANGED <<cursor_row, active, markdown_mode, toggled>>
    /\ AppFrame

\* BeeViewerApp.on_data_table_row_selected: a row of the table is selected
RowSelected ==
    /\ \E row \in 0..(n_samples - 1) :
          /\ cursor_row' = row
          /\ show_sample(row)
    /\ UNCHANGED <<active, markdown_mode, toggled>>
    /\ AppFrame

\* Mutant: the test of action_next_sample lets the last index through.
NextSampleUpToLength ==
    /\ IF current_sample_index < n_samples
       THEN /\ current_sample_index' = current_sample_index + 1
            /\ shown_sample' = current_sample_index + 1
            /\ cursor_row' = current_sample_index + 1
       ELSE UNCHANGED <<current_sample_index, shown_sample, cursor_row>>
    /\ UNCHANGED <<active, markdown_mode, toggled>>
    /\ AppFrame

\* BeeViewerApp.action_next_sample
NextSample ==
    /\ IF current_sample_index < n_samples - 1
       THEN /\ show_sample(current_sample_index + 1)
            /\ cursor_row' = current_sample_index + 1
       ELSE UNCHANGED <<current_sample_index, shown_sample, cursor_row>>
    /\ UNCHANGED <<active, markdown_mode, toggled>>
    /\ AppFrame

\* BeeViewerApp.action_prev_sample
PrevSample ==
    /\ IF current_sample_index > 0
       THEN /\ show_sample(current_sample_index - 1)
            /\ cursor_row' = current_sample_index - 1
       ELSE UNCHANGED <<current_sample_index, shown_sample, cursor_row>>
    /\ UNCHANGED <<active, markdown_mode, toggled>>
    /\ AppFrame

\* The user activates a tab
SwitchTab ==
    /\ \E i \in 1..Len(Tabs) : active' = Tabs[i]
    /\ UNCHANGED <<markdown_mode, toggled, current_sample_index, shown_sample,
                   cursor_row>>
    /\ AppFrame

\* history: the presses of "m" counted so far
TotalToggles ==
    toggled["json-outputs"] + toggled["json-inputs"] + toggled["json-metrics"]
    + toggled["json-debug"] + toggled["json-full"]

\* BeeViewerApp.action_toggle_markdown, with JSONViewer.action_toggle_markdown
\* of the viewer it finds; the history counts the press for the viewer of the
\* active pane
ToggleMarkdown ==
    /\ TotalToggles < MaxToggles
    /\ markdown_mode' =
          IF tab_to_viewer[active] # ""
          THEN [markdown_mode EXCEPT ![tab_to_viewer[active]] = ~@]
          ELSE markdown_mode
    /\ toggled' =
          IF ViewerIn(active) # ""
          THEN [toggled EXCEPT ![ViewerIn(active)] = @ + 1]
          ELSE toggled
    /\ UNCHANGED <<active, current_sample_index, shown_sample, cursor_row>>
    /\ AppFrame

AppNext ==
    \/ ShowSample
    \/ RowSelected
    \/ NextSample
    \/ PrevSample
    \/ SwitchTab
    \/ ToggleMarkdown

AppSpec == AppInit /\ [][AppNext]_vars

----------------------------------------------------------------------------
(* JSONViewer._has_markdown_content *)

\* len(data) > 100
MarkdownMinLen == 100

\* The backquote character, as one lexeme
Backquote == "backquote"

\* The indicator list of line 161, each indicator as its characters
Indicators ==
    {<<"#", "#">>, <<Backquote, Backquote, Backquote>>, <<"*", "*">>, <<"-", " ">>,
     <<"\n", "#">>, <<"<", "|">>}

\* indicator in data
Contains(s, sub) ==
    \E i \in 1..(Len(s) - Len(sub) + 1) : SubSeq(s, i, i + Len(sub) - 1) = sub

\* any(indicator in data for indicator in [...])
AnyIndicator(s) == \E ind \in Indicators : Contains(s, ind)

RECURSIVE has_markdown_content(_), AnyHasMarkdown(_)

\* The loops of lines 165-167 and 170-172: True at the first value for which
\* the recursive call returns True
AnyHasMarkdown(values) ==
    IF values = <<>> THEN FALSE
    ELSE IF has_markdown_content(values[1]) THEN TRUE
    ELSE AnyHasMarkdown(Tail(values))

\* Mutant: a string classifies from 100 characters on (>= for >).
has_markdown_content_from_limit(data) ==
    CASE data.t = "str" ->
            IF Len(data.s) >= MarkdownMinLen
            THEN AnyIndicator(data.s)
            ELSE FALSE
      [] data.t = "dict" -> AnyHasMarkdown(data.vals)
      [] data.t = "list" -> AnyHasMarkdown(data.items)
      [] OTHER -> FALSE

\* JSONViewer._has_markdown_content(data)
has_markdown_content(data) ==
    CASE data.t = "str" ->
            IF Len(data.s) > MarkdownMinLen
            THEN AnyIndicator(data.s)
            ELSE FALSE
      [] data.t = "dict" -> AnyHasMarkdown(data.vals)
      [] data.t = "list" -> AnyHasMarkdown(data.items)
      [] OTHER -> FALSE

\* Largest number of maps and lists around a leaf
MaxNest == 2

\* A string of n characters that holds sub from position pos on
Place(sub, pos, n) ==
    [i \in 1..n |-> IF i >= pos /\ i < pos + Len(sub)
                    THEN sub[i - pos + 1]
                    ELSE "a"]

\* Strings of 3, 100 and 101 characters that hold an indicator, or a run of
\* characters that is no indicator, at their start, after it or at their end
MarkdownStrings ==
    {JStr(Place(sub, pos, n)) :
        sub \in Indicators
                \cup {<<>>, <<"#">>, <<Backquote, Backquote>>, <<"*">>, <<"-">>,
                      <<"\n">>, <<"<">>, <<"|", "<">>, <<"#", " ", "#">>},
        pos \in {1, 2, MarkdownMinLen - 1},
        n \in {3, MarkdownMinLen, MarkdownMinLen + 1}}

\* A string with an indicator that is too short to classify, and one that is
\* long enough
Siblings ==
    {JStr(<<"#", "#">>), JStr(Place(<<"#", "#">>, 1, MarkdownMinLen + 1))}

\* The values placed inside maps and lists
NestedLeaves ==
    Siblings \cup
    {JStr(Place(<<"<", "|">>, MarkdownMinLen - 1, MarkdownMinLen)),
     JStr(Place(<<>>, 1, MarkdownMinLen + 1)),
     JNum(5), JList(<<>>)}

\* One more map or list around v, alone or beside another value
NestIn(v) ==
    {JList(<<v>>), MkDict(<< <<"k", v>> >>)}
    \cup {JList(<<w, v>>) : w \in Siblings}
    \cup {JList(<<v, w>>) : w \in Siblings}
    \cup {MkDict(<< <<"k", w>>, <<"x", v>> >>) : w \in Siblings}

RECURSIVE Nested(_)
Nested(n) ==
    IF n = 0 THEN NestedLeaves
    ELSE UNION {NestIn(v) : v \in Nested(n - 1)}

\* Strings, values that are neither string, map nor list, empty and nested
\* maps and lists
MarkdownInputs ==
    MarkdownStrings
    \cup {JNull, JBool(TRUE), JNum(5), PyObject, JList(<<>>), JDict(<<>>, <<>>)}
    \cup UNION {Nested(n) : n \in 1..MaxNest}

\* _has_markdown_content is about to be called on md_data
MarkdownInit ==
    /\ md_data \in MarkdownInputs
    /\ has_markdown = NotSet
    /\ pc = "classify"
    /\ conversation = JNull /\ ti = 0 /\ panels = <<>> /\ display = NotSet
    /\ ShellIdle
    /\ turn = NotSet /\ panel = NotSet
    /\ text = <<>> /\ matches = <<>> /\ mi = 1 /\ sections = <<>>
    /\ current_section_type = "plain" /\ current_section_start = 0
    /\ section_stack = <<>>
    /\ obj = NotSet /\ max_depth = 0 /\ expanded = NotSet /\ again = NotSet

\* The call returns
HasMarkdownContent ==
    /\ pc = "classify"
    /\ has_markdown' = JBool(has_markdown_content(md_data))
    /\ pc' = "classified"
    /\ UNCHANGED <<md_data, displayVars, shellVars, parseVars, jsonVars,
                   turnVars>>

MarkdownSpec == MarkdownInit /\ [][HasMarkdownContent]_vars

----------------------------------------------------------------------------
(* JSONViewer._render_markdown_with_code *)

Markdown(markup) == [r |-> "Markdown", markup |-> markup]

\* Syntax(code, language, ...) for a language other than JSON
SyntaxIn(code, language) == [r |-> "Syntax", code |-> code, lang |-> language]

\* The lexemes of the class \w: letters, digits, literals and names.
IsWord(l) ==
    \/ l \in NameLexemes \cup {"x", "k", "json", "null", "true", "false"}
    \/ IsDigit(l)

\* s[i:i+3] is a code fence
FenceAt(s, i) ==
    /\ i + 3 <= Len(s)
    /\ \A k \in 1..3 : s[i + k] = Backquote

\* Offset just after the maximal run of \w lexemes that starts at offset j.
RECURSIVE WordRunEnd(_, _)
WordRunEnd(s, j) ==
    IF j < Len(s) /\ IsWord(s[j + 1]) THEN WordRunEnd(s, j + 1) ELSE j

\* Offset of the first fence at or after offset j, or -1 when there is none.
NextFence(s, j) ==
    Only({ IF fences = {} THEN -1
           ELSE CHOOSE k \in fences : \A other \in fences : k <= other
           : fences \in {{k \in j..(Len(s) - 3) : FenceAt(s, k)}} })

NoBlock == [start |-> -1, end |-> -1, language |-> <<>>, code |-> <<>>]

\* The match of code_block_pattern at offset i (line 467), NoBlock when the
\* pattern does not match there: fence, optional language, newline, the
\* shortest body, fence.
CodeBlockAt(s, i) ==
    IF ~FenceAt(s, i) THEN NoBlock
    ELSE LET w == WordRunEnd(s, i + 3)
         IN  IF ~(w < Len(s) /\ s[w + 1] = "\n") THEN NoBlock
             ELSE LET c == NextFence(s, w + 1)
                  IN  IF c = -1 THEN NoBlock
                      ELSE [start |-> i, end |-> c + 3,
                            language |-> Slice(s, i + 3, w),
                            code |-> Slice(s, w + 1, c)]

\* re.finditer(code_block_pattern, text, re.DOTALL) from offset i on: the
\* leftmost match, then the matches after its end
RECURSIVE CodeBlocksFrom(_, _)
CodeBlocksFrom(s, i) ==
    Only({ IF starts = {} THEN <<>>
           ELSE Only({ <<b>> \o CodeBlocksFrom(s, b.end)
                       : b \in {CodeBlockAt(s, CHOOSE j \in starts :
                                                  \A other \in starts : j <= other)} })
           : starts \in {{j \in i..(Len(s) - 1) : CodeBlockAt(s, j) # NoBlock}} })

\* lines 472-478 and 505-511: text outside the code blocks as Markdown
ProseOf(chars) == IF Strip(chars) # <<>> THEN <<Markdown(chars)>> ELSE <<>>

\* lines 480-499: the Syntax of one code block.  Only JSONDecodeError is
\* caught around json.loads; any other exception leaves the function.
CodeBlockSyntax(b) ==
    LET code_content == Strip(b.code)
    IN  IF b.language = <<"json">>
        THEN Only({ IF parsed.ok THEN Returned(Syntax(DumpsIndent(parsed.val, 0)))
                    ELSE IF parsed.exc = "JSONDecodeError"
                         THEN Returned(Syntax(code_content))
                         ELSE Raised(parsed.exc)
                    : parsed \in {Loads(code_content)} })
        ELSE Returned(SyntaxIn(code_content,
                               IF b.language = <<>> THEN <<"text">>
                               ELSE b.language))

\* the loop of lines 470-502 from block k on, then lines 504-511
RECURSIVE RenderBlocksFrom(_, _, _, _)
RenderBlocksFrom(s, blocks, k, last_end) ==
    IF k > Len(blocks) THEN Returned(ProseOf(Slice(s, last_end, Len(s))))
    ELSE Only({ IF syntax.exc # "" THEN syntax
                ELSE Only({ IF rest.exc # "" THEN rest
                            ELSE Returned(
                                   ProseOf(Slice(s, last_end, blocks[k].start))
                                   \o <<syntax.val, Text(<<>>, "")>>
                                   \o rest.val)
                            : rest \in {RenderBlocksFrom(s, blocks, k + 1,
                                                          blocks[k].end)} })
                : syntax \in {CodeBlockSyntax(blocks[k])} })

\* JSONViewer._render_text_with_code_blocks(text)
render_text_with_code_blocks(chars) ==
    RenderBlocksFrom(chars, CodeBlocksFrom(chars, 0), 1, 0)

\* JSONViewer._try_render_as_json(text); NotSet stands for None
try_render_as_json(chars) ==
    LET stripped == Strip(chars)
    IN  IF stripped = <<>> THEN Returned(NotSet)
        ELSE IF ~(StartsWith(stripped, "{") \/ StartsWith(stripped, "["))
        THEN Returned(NotSet)
        ELSE Only({ IF ~parsed.ok
                    THEN IF Caught(parsed.exc) THEN Returned(NotSet)
                         ELSE Raised(parsed.exc)
                    ELSE Only({ IF e.t = "raise"
                                THEN IF Caught(e.exc) THEN Returned(NotSet)
                                     ELSE Raised(e.exc)
                                ELSE Returned(Syntax(DumpsIndent(e, 0)))
                                : e \in {JVExpand(parsed.val)} })
                    : parsed \in {Loads(stripped)} })

\* The horizontal rule of a section header, sixty box-drawing dashes
Rule == "rule"

\* the headers table of _create_section_header: label and style
Headers ==
    [system |-> <<"SYSTEM", "bold blue">>,
     user |-> <<"USER", "bold green">>,
     chatbot |-> <<"ASSISTANT", "bold cyan">>,
     thinking |-> <<"THINKING", "bold yellow">>,
     action |-> <<"ACTION", "bold magenta">>,
     response |-> <<"RESPONSE", "bold cyan">>,
     tool_result |-> <<"TOOL RESULT", "bold red">>]

\* JSONViewer._create_section_header(section_type); <<>> stands for None
create_section_header(section_type) ==
    IF section_type \in DOMAIN Headers
    THEN <<Text(<<"\n", Rule, "\n", Headers[section_type][1], "\n", Rule, "\n">>,
                Headers[section_type][2])>>
    ELSE <<>>

\* lines 454-456: every non-empty line, indented and ended by a newline
RECURSIVE IndentLines(_, _)
IndentLines(chars, line) ==
    LET indented == IF line = <<>> THEN <<>>
                    ELSE <<" ", " ">> \o line \o <<"\n">>
    IN  IF chars = <<>> THEN indented
        ELSE IF Head(chars) = "\n"
        THEN indented \o IndentLines(Tail(chars), <<>>)
        ELSE IndentLines(Tail(chars), Append(line, Head(chars)))

\* JSONViewer._style_section(section_type, elements), the list of the Group
style_section(section_type, elements) ==
    [i \in 1..Len(elements) |->
        IF elements[i].r = "Text"
        THEN Text(IndentLines(elements[i].text, <<>>), "")
        ELSE elements[i]]

\* one iteration of the loop of _render_markdown_with_code (lines 343-372)
RenderSection(s) ==
    LET header == IF s.type # "plain" THEN create_section_header(s.type)
                  ELSE <<>>
        prose ==
            Only({ IF r.exc # "" THEN r
                   ELSE IF s.type # "plain"
                   THEN Returned(header \o style_section(s.type, r.val))
                   ELSE Returned(header \o r.val)
                   : r \in {render_text_with_code_blocks(s.content)} })
    IN  IF Strip(s.content) = <<>> THEN Returned(header)
        ELSE IF s.type \in {"action", "tool_result"}
        THEN Only({ IF j.exc # "" THEN j
                    ELSE IF j.val # NotSet
                    THEN Returned(header \o style_section(s.type, <<j.val>>))
                    ELSE prose
                    : j \in {try_render_as_json(s.content)} })
        ELSE prose

\* the loop of _render_markdown_with_code from section k on
RECURSIVE RenderSectionsFrom(_, _)
RenderSectionsFrom(secs, k) ==
    IF k > Len(secs) THEN Returned(<<>>)
    ELSE Only({ IF one.exc # "" THEN one
                ELSE Only({ IF rest.exc # "" THEN rest
                            ELSE Returned(one.val \o rest.val)
                            : rest \in {RenderSectionsFrom(secs, k + 1)} })
                : one \in {RenderSection(secs[k])} })

JsonList == Dumps(JList(<<JNum(1)>>))

\* A map whose one value is a string that holds the JSON text `inner`.
JsonHolding(inner) == Dumps(JDict(<<<<"k">>>>, <<JStr(inner)>>))

Fence == <<Backquote, Backquote, Backquote>>

\* A code block of the given language around the body.
CodeBlock(language, body) == Fence \o language \o <<"\n">> \o body \o Fence

\* What a section holds: JSON that parses (bare, padded, a list, with a JSON
\* string inside), JSON-shaped text that does not parse, prose, blank, code
\* blocks, and brackets nested deeper than json.loads can follow.
SectionContents ==
    {JsonText, <<" ">> \o JsonText \o <<"\n">>, JsonList, JsonHolding(JsonText),
     <<"{", "x", "}">>, JsonList \o <<"x">>, <<"x">>, <<" ">>, <<>>,
     CodeBlock(<<"json">>, JsonText), CodeBlock(<<"json">>, <<"{", "x", "}">>),
     CodeBlock(<<"x">>, <<"k">>), <<"x">> \o CodeBlock(<<>>, <<"k">>) \o <<"x">>,
     Fence \o <<"x">>,
     DeepBrackets, JsonHolding(DeepBrackets), CodeBlock(<<"json">>, DeepBrackets)}

\* The marker in front of the content, none for plain text.
SectionOpeners ==
    {<<>>} \cup {Marker(n) : n \in {"START_ACTION", "START_TOOL_RESULT",
                                    "START_THINKING", "START_RESPONSE",
                                    "SYSTEM_TOKEN"}}

RenderTexts ==
    {pre \o open \o content \o post :
        pre \in {<<>>, Marker("START_OF_TURN_TOKEN"), <<"x">> \o Marker("FOO")},
        open \in SectionOpeners,
        content \in SectionContents,
        post \in {<<>>, Marker("END_ACTION"), Marker("END_ACTION") \o <<"x">>}}

RenderInit ==
    /\ text \in RenderTexts
    /\ matches = <<>>
    /\ mi = 1
    /\ sections = <<>>
    /\ current_section_type = "plain"
    /\ current_section_start = 0
    /\ section_stack = <<>>
    /\ pc = "find"
    /\ obj = NotSet /\ max_depth = 0 /\ expanded = NotSet /\ again = NotSet
    /\ turn = NotSet /\ panel = NotSet
    /\ ViewIdle

\* lines 343-374 of _render_markdown_with_code, after the sections are parsed:
\* panel takes the elements of the returned Group, or what was raised
RenderSections ==
    /\ pc = "done"
    /\ panel' = RenderSectionsFrom(sections, 1)
    /\ pc' = IF panel'.exc = "" THEN "rendered" ELSE "raised"
    /\ UNCHANGED <<turn, parseVars, jsonVars, viewVars>>

RenderNext ==
    \/ FindTokens
    \/ EndToken
    \/ TurnToken
    \/ PushToken
    \/ UnknownToken
    \/ AddRemaining
    \/ RenderSections

RenderSpec == RenderInit /\ [][RenderNext]_vars

----------------------------------------------------------------------------
(* JSONViewer._update_content, _render_markdown and _render_value *)

\* The locals of _parse_token_sections before the loop (lines 289-292)
ParserStart == [sections |-> <<>>, type |-> "plain", start |-> 0, stack |-> <<>>]

\* One iteration of the loop of _parse_token_sections (lines 294-326) as a
\* function of the locals: the iteration that EndToken, TurnToken, PushToken
\* and UnknownToken take on the variables.
AfterToken(s, m, st) ==
    LET content == Slice(s, st.start, m.start)
        secs == IF m.start > st.start /\ Strip(content) # <<>>
                THEN Append(st.sections, [type |-> st.type, token |-> m.token,
                                          content |-> content])
                ELSE st.sections
    IN  IF m.token \notin DOMAIN token_map THEN [st EXCEPT !.sections = secs]
        ELSE IF StartsWithEnd(token_map[m.token])
        THEN LET stack == IF st.stack # <<>> THEN Front(st.stack) ELSE st.stack
             IN  [sections |-> secs,
                  type |-> IF stack # <<>> THEN Last(stack) ELSE "plain",
                  start |-> m.end, stack |-> stack]
        ELSE IF IsTurnType(token_map[m.token])
        THEN [st EXCEPT !.sections = secs, !.start = m.end]
        ELSE [sections |-> secs, type |-> token_map[m.token], start |-> m.end,
              stack |-> Append(st.stack, token_map[m.token])]

RECURSIVE ParseLoop(_, _, _, _)
ParseLoop(s, ms, k, st) ==
    IF k > Len(ms) THEN st
    ELSE Only({ ParseLoop(s, ms, k + 1, nx) : nx \in {AfterToken(s, ms[k], st)} })

\* JSONViewer._parse_token_sections(text) as a function of the text
parse_token_sections(s) ==
    Only({ IF ms = <<>> THEN <<[type |-> "plain", token |-> "", content |-> s]>>
           ELSE Only({
                  LET content == Slice(s, st.start, Len(s))
                      withRest ==
                          IF st.start < Len(s) /\ Strip(content) # <<>>
                          THEN Append(st.sections, [type |-> st.type,
                                                    token |-> "",
                                                    content |-> content])
                          ELSE st.sections
                  IN  IF withRest # <<>> THEN withRest
                      ELSE <<[type |-> "plain", token |-> "", content |-> s]>>
                  : st \in {ParseLoop(s, ms, 1, ParserStart)} })
           : ms \in {FindIter(s)} })

\* rich.console.Group(*items) as a renderable
GroupOf(items) == [r |-> "Group", items |-> items]

\* JSONViewer._render_markdown_with_code(text)
render_markdown_with_code(chars) ==
    Only({ IF r.exc # "" THEN r ELSE Returned(GroupOf(r.val))
           : r \in {RenderSectionsFrom(parse_token_sections(chars), 1)} })

\* JSONViewer._looks_like_json(text); the bare except takes every exception
looks_like_json(chars) ==
    LET stripped == Strip(chars)
    IN  /\ \/ StartsWith(stripped, "{") /\ EndsWith(stripped, "}")
           \/ StartsWith(stripped, "[") /\ EndsWith(stripped, "]")
        /\ Loads(stripped).ok

\* JSONViewer._render_json_string(text); the bare except takes every exception
render_json_string(chars) ==
    Only({ IF parsed.ok THEN Syntax(DumpsIndent(parsed.val, 0))
           ELSE Text(chars, "white")
           : parsed \in {Loads(chars)} })

\* isinstance(item, (str, int, float, bool))
IsSimple(item) == item.t \in {"str", "num", "bool"}

RECURSIVE render_value(_), RenderEntries(_, _, _)

\* The elements of a loop over values: for each one the elements ahead[k],
\* the rendering of the value and a blank Text; what a rendering raises
\* leaves the loop.
RenderEntries(ahead, values, k) ==
    IF k > Len(values) THEN Returned(<<>>)
    ELSE Only({ IF one.exc # "" THEN one
                ELSE Only({ IF rest.exc # "" THEN rest
                            ELSE Returned(ahead[k] \o <<one.val, Text(<<>>, "")>>
                                          \o rest.val)
                            : rest \in {RenderEntries(ahead, values, k + 1)} })
                : one \in {render_value(values[k])} })

\* JSONViewer._render_value(value)
render_value(value) ==
    CASE value.t = "null" -> Returned(Text(<<"null">>, "dim"))
      [] value.t = "str" ->
            Only({ IF Len(chars) > MarkdownMinLen /\ AnyIndicator(chars)
                   THEN render_markdown_with_code(chars)
                   ELSE IF Len(chars) > MarkdownMinLen /\ looks_like_json(chars)
                   THEN Returned(render_json_string(chars))
                   ELSE Returned(Text(chars, "white"))
                   : chars \in {value.s} })
      [] value.t = "dict" ->
            Only({ IF r.exc # "" THEN r ELSE Returned(GroupOf(r.val))
                   : r \in {RenderEntries(
                              [k \in 1..Len(value.keys) |->
                                  <<Text(<<" ", " ">> \o value.keys[k]
                                             \o <<":", " ">>, "cyan")>>],
                              value.vals, 1)} })
      [] value.t = "list" ->
            IF \A i \in 1..Len(value.items) : IsSimple(value.items[i])
            THEN Returned(Syntax(DumpsIndent(value, 0)))
            ELSE Only({ IF r.exc # "" THEN r ELSE Returned(GroupOf(r.val))
                        : r \in {RenderEntries(
                                   [k \in 1..Len(value.items) |->
                                       <<Text(<<" ", " ", "[">> \o NumChars(k - 1)
                                                  \o <<"]", ":", " ">>, "dim")>>],
                                   value.items, 1)} })
      [] OTHER -> Returned(Text(PyStr(value), "yellow"))

\* JSONViewer._render_markdown(data): data.items() exists for a map only
render_markdown(data) ==
    IF data.t # "dict" THEN Raised("AttributeError")
    ELSE Only({ IF r.exc # "" THEN r ELSE Returned(GroupOf(r.val))
                : r \in {RenderEntries(
                           [k \in 1..Len(data.keys) |->
                               <<Text(<<"==", " ">> \o data.keys[k] \o <<" ">>,
                                      "bold cyan"),
                                 Text(<<>>, "")>>],
                           data.vals, 1)} })

\* What the content widget is updated with
ShowsMarkup(line) == [shows |-> "markup", line |-> line]

ShowsStr(chars) == [shows |-> "str", chars |-> chars]

ShowsRenderable(renderable) == [shows |-> "renderable", renderable |-> renderable]

ShowsError(e) == [shows |-> "error", exc |-> e]

\* JSONViewer._update_content() with a content widget, as the new content
update_content(data, mode) ==
    IF data = JNull THEN ShowsMarkup("[dim]No data[/dim]")
    ELSE IF data.t \notin {"dict", "list"} THEN ShowsStr(PyStr(data))
    ELSE IF mode /\ has_markdown_content(data)
    THEN Only({ IF rendered.exc # "" THEN ShowsError(rendered.exc)
                ELSE ShowsRenderable(rendered.val)
                : rendered \in {render_markdown(data)} })
    ELSE ShowsRenderable(Syntax(DumpsIndent(data, 0)))

\* The JSONViewer that the specification of _update_content follows
TheViewer == "json-inputs"

LongMarkup == Place(<<"#", "#">>, 1, MarkdownMinLen + 1)

\* A string of more than 100 characters that holds `chars`, after markup
\* when `marked`
Long(chars, marked) ==
    [i \in 1..(MarkdownMinLen + 1) |->
        IF i <= Len(chars) THEN chars[i]
        ELSE IF marked /\ i > MarkdownMinLen - 1 THEN "*" ELSE " "]

\* None, scalars, maps and lists without markup, with markup at the top and
\* further down, with token sections, code blocks and JSON strings in them
ContentInputs ==
    {JNull, JNum(5), JStr(<<"x">>), JList(<<>>), JDict(<<>>, <<>>)}
    \cup Nested(1)
    \cup {MkDict(<< <<"k", v>>, <<"m", JStr(LongMarkup)>> >>) :
            v \in {JNull, JBool(TRUE), JNum(5), JList(<<JNum(5), JStr(<<"x">>)>>),
                   JList(<<JNull, JStr(LongMarkup)>>),
                   MkDict(<< <<"x", JStr(LongMarkup)>> >>),
                   JStr(Long(JsonText, FALSE)),
                   JStr(Long(<<"{", "x", "}">>, FALSE)),
                   JStr(Long(Marker("START_ACTION") \o JsonText
                                 \o Marker("END_ACTION") \o <<"x">>, FALSE)),
                   JStr(Long(CodeBlock(<<"json">>, JsonText), FALSE)),
                   JStr(Long(CodeBlock(<<"json">>, DeepBrackets), FALSE)),
                   JStr(Long(Marker("START_ACTION") \o DeepBrackets, TRUE))}}
    \cup {JList(<<JStr(LongMarkup)>>),
          JList(<<MkDict(<< <<"k", JStr(LongMarkup)>> >>)>>)}

\* A JSONViewer that is composed and mounted and was given no data
ContentInit ==
    /\ md_data = JNull
    /\ display = ShowsMarkup("[dim]Loading...[/dim]")
    /\ mounted = TRUE
    /\ markdown_mode = [v \in {TheViewer} |-> FALSE]
    /\ pc = "idle"
    /\ has_markdown = NotSet
    /\ conversation = JNull /\ ti = 0 /\ panels = <<>>
    /\ was_set = FALSE /\ active = "" /\ toggled = <<>> /\ n_samples = 0
    /\ current_sample_index = 0 /\ shown_sample = -1 /\ cursor_row = 0
    /\ turn = NotSet /\ panel = NotSet
    /\ text = <<>> /\ matches = <<>> /\ mi = 1 /\ sections = <<>>
    /\ current_section_type = "plain" /\ current_section_start = 0
    /\ section_stack = <<>>
    /\ obj = NotSet /\ max_depth = 0 /\ expanded = NotSet /\ again = NotSet

ContentFrame ==
    UNCHANGED <<pc, has_markdown, conversation, ti, panels, mounted, was_set,
                active, toggled, n_samples, current_sample_index, shown_sample,
                cursor_row, parseVars, jsonVars, turnVars>>

\* the data setter (lines 106-112) on the mounted viewer
SetData ==
    /\ \E value \in ContentInputs :
        /\ md_data' = value
        /\ display' = update_content(value, markdown_mode[TheViewer])
    /\ UNCHANGED markdown_mode
    /\ ContentFrame

\* JSONViewer.action_toggle_markdown (lines 119-124)
ViewerToggleMarkdown ==
    /\ markdown_mode' = [markdown_mode EXCEPT ![TheViewer] = ~@]
    /\ display' = update_content(md_data, markdown_mode'[TheViewer])
    /\ UNCHANGED md_data
    /\ ContentFrame

ContentNext == SetData \/ ViewerToggleMarkdown

ContentSpec == ContentInit /\ [][ContentNext]_vars

----------------------------------------------------------------------------
(* Properties of _parse_token_sections *)

RoleMarkers == {"<|SYSTEM_TOKEN|>", "<|USER_TOKEN|>", "<|CHATBOT_TOKEN|>"}

StartMarkers == {"<|START_THINKING|>", "<|START_ACTION|>",
                 "<|START_RESPONSE|>", "<|START_TOOL_RESULT|>"}

EndMarkers == {"<|END_THINKING|>", "<|END_ACTION|>",
               "<|END_RESPONSE|>", "<|END_TOOL_RESULT|>"}

TurnMarkers == {"<|START_OF_TURN_TOKEN|>", "<|END_OF_TURN_TOKEN|>"}

RecognizedMarkers ==
    RoleMarkers \cup StartMarkers \cup EndMarkers \cup TurnMarkers

\* s[i..j] (1-based, inclusive) has the form <|NAME|>
MarkerShapedAt(s, i, j) ==
    /\ 1 <= i /\ j <= Len(s) /\ j >= i + 4
    /\ s[i] = "<" /\ s[i + 1] = "|" /\ s[j - 1] = "|" /\ s[j] = ">"
    /\ \A k \in (i + 2)..(j - 2) : s[k] \in NameLexemes

NoMarkerShaped(s) ==
    ~ \E i \in 1..Len(s), j \in 1..Len(s) : MarkerShapedAt(s, i, j)

NonBlank(s) == \E i \in 1..Len(s) : s[i] # " "

\* s with every occurrence of a recognized marker removed
RECURSIVE StripRecognized(_)
StripRecognized(s) ==
    IF s = <<>> THEN <<>>
    ELSE IF \E j \in 1..Len(s) :
                MarkerShapedAt(s, 1, j) /\ Join(SubSeq(s, 1, j)) \in RecognizedMarkers
         THEN LET j == CHOOSE j \in 1..Len(s) :
                        MarkerShapedAt(s, 1, j)
                        /\ Join(SubSeq(s, 1, j)) \in RecognizedMarkers
              IN  StripRecognized(SubSeq(s, j + 1, Len(s)))
         ELSE <<s[1]>> \o StripRecognized(Tail(s))

Contents == Flatten([i \in 1..Len(sections) |-> sections[i].content])

\* The token whose loop iteration has just completed
JustProcessed == matches[mi - 1].token

AfterAToken == pc = "loop" /\ mi > 1

\* C1: when decoding is done, the contents of the returned sections,
\* concatenated in order, are the input with every recognized marker removed.
PartitionInvariant ==
    pc = "done" => Contents = StripRecognized(text)

\* C2: for an input with no marker-shaped substring (the empty string
\* included) the result is exactly one plain section holding the input.
NoMarkerInvariant ==
    (pc = "done" /\ NoMarkerShaped(text))
        => sections = <<[type |-> "plain", token |-> "", content |-> text]>>

NoMarkerWitness ==
    /\ pc = "done"
    /\ NoMarkerShaped(text)
    /\ text = <<"x", "<", "|", "x", "|", ">", " ">>
    /\ Len(sections) = 1

\* C4: right after a standalone role marker is processed the stack holds
\* exactly one element, the role's kind.
RoleMarkerResetsStack ==
    (AfterAToken /\ JustProcessed \in RoleMarkers)
        => section_stack = <<current_section_type>>
           /\ current_section_type \in {"system", "user", "chatbot"}

\* C5: an End marker pops exactly one element of a non-empty stack, whatever
\* its kind, and leaves an empty stack empty; the loop goes on and the active
\* kind becomes the new top of the stack, plain when the stack is empty.
EndMarkerPopsOne ==
    [][(AtToken /\ matches[mi].token \in EndMarkers /\ mi' = mi + 1)
        => /\ section_stack' = IF section_stack = <<>> THEN <<>>
                               ELSE Front(section_stack)
           /\ current_section_type' = IF section_stack' = <<>> THEN "plain"
                                      ELSE Last(section_stack')
           /\ pc' = "loop"]_vars

\* <|START_THINKING|>x<|END_ACTION|> : the mismatched End marker has popped
EndMarkerWitness ==
    /\ AfterAToken
    /\ mi = 3
    /\ matches[1].token = "<|START_THINKING|>"
    /\ matches[2].token = "<|END_ACTION|>"
    /\ section_stack = <<>>
    /\ current_section_type = "plain"

\* C6: processing a marker-shaped token outside the recognized set ends no
\* section: the list of sections is the same before and after it.
UnknownMarkerNoBoundary ==
    [][(AtToken /\ matches[mi].token \notin RecognizedMarkers /\ mi' = mi + 1)
        => sections' = sections]_vars

\* Opening marker, its End marker (none for a role marker) and its kind
MarkerKinds ==
    {<<"SYSTEM_TOKEN", "", "system">>,
     <<"USER_TOKEN", "", "user">>,
     <<"CHATBOT_TOKEN", "", "chatbot">>,
     <<"START_THINKING", "END_THINKING", "thinking">>,
     <<"START_ACTION", "END_ACTION", "action">>,
     <<"START_RESPONSE", "END_RESPONSE", "response">>,
     <<"START_TOOL_RESULT", "END_TOOL_RESULT", "tool_result">>}

PlainBody(t) == NonBlank(t) /\ NoMarkerShaped(t)

OneSectionOf(kind, t) ==
    /\ Len(sections) = 1
    /\ sections[1].type = kind
    /\ sections[1].content = t

\* C7: marker, text t, optional matching End marker: exactly one section, of
\* the marker's kind, with content t.
SingleSectionInvariant ==
    pc = "done" =>
        \A mk \in MarkerKinds :
            (Len(text) > 5 /\ SubSeq(text, 1, 5) = Marker(mk[1])) =>
                LET rest == SubSeq(text, 6, Len(text))
                    body == SubSeq(rest, 1, Len(rest) - 5)
                IN  /\ PlainBody(rest) => OneSectionOf(mk[3], rest)
                    /\ (/\ mk[2] # ""
                        /\ Len(rest) > 5
                        /\ SubSeq(rest, Len(rest) - 4, Len(rest)) = Marker(mk[2])
                        /\ PlainBody(body))
                           => OneSectionOf(mk[3], body)

SingleSectionWitness ==
    /\ pc = "done"
    /\ text = Marker("START_TOOL_RESULT") \o <<"x">> \o Marker("END_TOOL_RESULT")
    /\ OneSectionOf("tool_result", <<"x">>)

\* C20: sections with only-whitespace content are dropped: no section that
\* _parse_token_sections returns has empty or whitespace-only content.
NoBlankSection ==
    pc = "done" =>
        \A i \in 1..Len(sections) : Strip(sections[i].content) # <<>>

TopOrPlain(stack) == IF stack # <<>> THEN Last(stack) ELSE "plain"

\* Where the text that the next step may emit ends: the start of the token
\* about to be processed, or the end of the string after the last token.
SpanEnd ==
    IF pc = "loop" /\ mi <= Len(matches) THEN matches[mi].start ELSE Len(text)

\* The step emits a section for the text between the cursor and SpanEnd.
EmitsSpan ==
    /\ Len(sections') = Len(sections) + 1
    /\ Last(sections').content = Slice(text, current_section_start, SpanEnd)

\* C24: at every step the active section kind is the top of the section
\* stack, or plain when the stack is empty, and a section emitted for the
\* text between the cursor and a marker (or the end of the string) carries
\* that kind as it stands before the marker is processed.
ActiveKindIsTopOfStack ==
    /\ [](current_section_type = TopOrPlain(section_stack))
    /\ [][EmitsSpan => Last(sections').type = TopOrPlain(section_stack)]_vars

ActiveKindIsTopOfStackWitness ==
    /\ pc = "loop"
    /\ Len(section_stack) = 2
    /\ section_stack[1] # section_stack[2]
    /\ sections # <<>>
    /\ Last(sections).type = section_stack[1]

AtTurnMarker == AtToken /\ matches[mi].token \in TurnMarkers

\* Text, a turn marker, text, after at most one other segment.
AroundTurnMarker ==
    \E pre \in Segments \cup {<<>>} : \E n \in {"START_OF_TURN_TOKEN",
                                               "END_OF_TURN_TOKEN"} :
        text = pre \o <<"x">> \o Marker(n) \o <<"x">>

\* C25: processing a turn marker leaves the section stack and the active
\* section kind as they were and moves the cursor to the end of the marker;
\* text after the marker is tagged with the kind of the text before it.
TurnMarkerKeepsKind ==
    /\ [][AtTurnMarker =>
            /\ section_stack' = section_stack
            /\ current_section_type' = current_section_type
            /\ current_section_start' = matches[mi].end]_vars
    /\ [](pc = "done" /\ AroundTurnMarker =>
            /\ Len(sections) = 2
            /\ sections[1].type = sections[2].type)

TurnMarkerKeepsKindWitness ==
    /\ AfterAToken
    /\ JustProcessed \in TurnMarkers
    /\ section_stack # <<>>
    /\ sections # <<>>
    /\ current_section_start = matches[mi - 1].end

\* C26: the token recorded in a returned section is the marker that made
\* the section's kind active: the marker of that kind for every kind but
\* plain, and for plain either nothing (no marker opened it) or the End
\* marker whose pop left the stack empty.
TokenIsOpener ==
    pc = "done" =>
        \A i \in 1..Len(sections) :
            LET s == sections[i] IN
                IF s.type # "plain"
                THEN s.token \in DOMAIN token_map /\ token_map[s.token] = s.type
                ELSE s.token = "" \/ s.token \in EndMarkers

\* The offsets of the text at which content c occurs.
Occurrences(c) ==
    {p \in 0..(Len(text) - Len(c)) : Slice(text, p, p + Len(c)) = c}

\* The contents of sections i.. can be laid on the text, each on one of its
\* occurrences, without covering a position of `taken` or any position twice.
RECURSIVE Disjointly(_, _)
Disjointly(i, taken) ==
    \/ i > Len(sections)
    \/ \E p \in Occurrences(sections[i].content) :
          LET span == (p + 1)..(p + Len(sections[i].content))
          IN  span \cap taken = {} /\ Disjointly(i + 1, taken \cup span)

\* C28: the spans of the returned sections are pairwise disjoint: no position
\* of the input is covered by the content of more than one section.
SpansDisjoint == pc = "done" => Disjointly(1, {})

HasRecognizedMarker(s) ==
    \E i \in 1..Len(s), j \in 1..Len(s) :
        MarkerShapedAt(s, i, j) /\ Join(SubSeq(s, i, j)) \in RecognizedMarkers

\* C29: no returned section has content that contains the text of a
\* recognized marker.
NoMarkerInContent ==
    pc = "done" =>
        \A i \in 1..Len(sections) : ~HasRecognizedMarker(sections[i].content)

----------------------------------------------------------------------------
(* Properties of the two _expand_nested_json functions *)

PaddedArray == JStr(<<" ", "[", "1", "]", " ">>)

\* C8: a call of ConversationViewer._expand_nested_json with max_depth <= 0
\* returns its argument unchanged, a string of valid JSON included.
CVDepthZeroIdentity ==
    (pc = "cv_done" /\ max_depth <= 0) => expanded = obj

CVDepthZeroWitness ==
    /\ pc = "cv_done"
    /\ max_depth = 0
    /\ obj = JStr(Dumps(JDict(<<<<"k">>>>, <<PaddedArray>>)))
    /\ Loads(obj.s).ok
    /\ expanded = obj

RECURSIVE JsonStringsWithin(_, _)
JsonStringsWithin(v, budget) ==
    CASE v.t = "str" ->
            (CVLooksLikeJson(v.s) /\ Loads(v.s).exc # "JSONDecodeError")
                => /\ budget >= 1
                   /\ Loads(v.s).ok
                        => JsonStringsWithin(Loads(v.s).val, budget - 1)
      [] v.t = "list" ->
            \A i \in 1..Len(v.items) : JsonStringsWithin(v.items[i], budget - 1)
      [] v.t = "dict" ->
            \A i \in 1..Len(v.vals) : JsonStringsWithin(v.vals[i], budget - 1)
      [] OTHER -> TRUE

IsNestedWrapper(v) ==
    /\ v.t = "dict"
    /\ v.keys = <<<<"_nested_json_">>, <<"_content_">>>>
    /\ v.vals[1] = JBool(TRUE)

\* The trimmed string parses as a JSON object or array
IsJsonContainerText(chars) ==
    LET r == Loads(Strip(chars))
    IN  r.ok /\ r.val.t \in {"dict", "list"}

\* What JSONViewer._expand_nested_json is to return for the value v
WrappedIffContainerText(v, out) ==
    CASE v.t = "str" ->
            IF IsJsonContainerText(v.s)
            THEN /\ IsNestedWrapper(out)
                 /\ out.vals[2] = JVExpand(Loads(Strip(v.s)).val)
                 /\ out.vals[2].t = Loads(Strip(v.s)).val.t
            ELSE out = v
      [] v.t \in {"num", "bool", "null"} -> out = v
      [] v.t = "list" ->
            /\ out.t = "list"
            /\ Len(out.items) = Len(v.items)
      [] v.t = "dict" ->
            /\ out.t = "dict"
            /\ out.keys = v.keys
            /\ Len(out.vals) = Len(v.vals)

\* C10: JSONViewer._expand_nested_json wraps a value exactly when it is a
\* string whose trimmed form parses as a JSON object or array; numbers,
\* booleans and null come back unchanged; maps and lists are rebuilt with
\* the same keys and order, each member treated by the same rule (in every
\* call that returns).
JVWrapsExactlyJsonStrings ==
    (pc = "jv_done" /\ expanded.t # "raise") =>
        /\ WrappedIffContainerText(obj, expanded)
        /\ obj.t = "list" =>
            \A i \in 1..Len(obj.items) :
                WrappedIffContainerText(obj.items[i], expanded.items[i])
        /\ obj.t = "dict" =>
            \A i \in 1..Len(obj.vals) :
                WrappedIffContainerText(obj.vals[i], expanded.vals[i])

JVWrapWitness ==
    /\ pc = "jv_done"
    /\ obj = JDict(<<<<"k">>>>, <<PaddedArray>>)
    /\ expanded = JDict(<<<<"k">>>>, <<NestedWrapper(JList(<<JNum(1)>>))>>)

\* A string that json.loads does not accept
NotValidJson(v) == v.t = "str" /\ ~Loads(v.s).ok

\* C11: both expansion functions return a string that is not valid JSON as
\* it is, and do not raise, whether the string is the argument itself, a
\* value of the argument map or an element of the argument list.
InvalidJsonUnchanged ==
    pc \in {"cv_done", "jv_done"} =>
        /\ NotValidJson(obj) => expanded = obj
        /\ obj.t = "list" =>
            \A i \in 1..Len(obj.items) :
                NotValidJson(obj.items[i]) =>
                    (expanded.t = "list" /\ expanded.items[i] = obj.items[i])
        /\ obj.t = "dict" =>
            \A i \in 1..Len(obj.vals) :
                NotValidJson(obj.vals[i]) =>
                    (expanded.t = "dict" /\ expanded.vals[i] = obj.vals[i])

\* What ConversationViewer._expand_nested_json, left with `budget` levels, is
\* to return for the string v: the parsed value, expanded in turn and not
\* wrapped, when v is JSON-shaped and parses; v itself otherwise
CVParsedInPlace(v, out, budget) ==
    v.t = "str" =>
        IF CVLooksLikeJson(v.s) /\ Loads(v.s).ok
        THEN /\ out = CVExpand(Loads(v.s).val, budget - 1)
             /\ out.t = Loads(v.s).val.t
             /\ ~IsNestedWrapper(out)
        ELSE out = v

\* C12: with the default depth ConversationViewer._expand_nested_json replaces
\* a JSON-shaped string that parses (the argument itself, a map value or a
\* list element) by the parsed value, expanded in turn, with no wrapper map;
\* every other string is returned unchanged.
CVReplacesByParsedValue ==
    (pc = "cv_done" /\ max_depth = DefaultMaxDepth) =>
        /\ CVParsedInPlace(obj, expanded, DefaultMaxDepth)
        /\ obj.t = "list" =>
            /\ expanded.t = "list"
            /\ \A i \in 1..Len(obj.items) :
                CVParsedInPlace(obj.items[i], expanded.items[i],
                                DefaultMaxDepth - 1)
        /\ obj.t = "dict" =>
            /\ expanded.t = "dict"
            /\ \A i \in 1..Len(obj.vals) :
                CVParsedInPlace(obj.vals[i], expanded.vals[i],
                                DefaultMaxDepth - 1)

----------------------------------------------------------------------------
(* Properties of _render_turn *)

\* C3: _render_turn returns a panel for every turn record, whatever its
\* fields hold (null, absent, a value of an unexpected type); it never raises.
RenderTurnNeverRaises ==
    pc # "render" => (pc = "rendered" /\ panel.exc = "" /\ panel.val.t = "panel")

\* The kind of a block of a Chatbot panel, told by the style of its heading
BlockKind(b) ==
    IF b.r = "Syntax" THEN "json"
    ELSE CASE b.style = "italic yellow" -> "thinking"
           [] b.style = "bold magenta"  -> "tool_call"
           [] b.style = "italic green"  -> "response"
           [] b = Text(<<"[No content]">>, "dim") -> "placeholder"
           [] OTHER -> "other"

Positions(body, kind) == {i \in 1..Len(body) : BlockKind(body[i]) = kind}

IsToolCallHeading(b) == BlockKind(b) = "tool_call"

\* The heading of the block of one tool call
ToolCallHeading(tc) ==
    Text(<<"Tool Call: ">> \o Get(tc, "name", JStr(<<"unknown">>)).s,
         "bold magenta")

ChatbotRendered == pc = "rendered" /\ RoleOf(turn) = JStr(<<"Chatbot">>)

\* C13: in the panel of a Chatbot turn the thinking block, if the turn has a
\* rationale, is the first block; then comes one tool-call block per entry of
\* tool_calls, in list order; the response block, if any, is the last
\* block.  No response block precedes a tool-call block and no tool-call
\* block precedes the thinking block.
ChatbotBlockOrder ==
    ChatbotRendered =>
        LET body == panel.val.body
            th == Positions(body, "thinking")
            tc == Positions(body, "tool_call")
            rs == Positions(body, "response")
            calls == Get(turn, "tool_calls", JNull)
            entries == IF Truthy(calls) THEN calls.items ELSE <<>>
        IN  /\ th = IF Truthy(Get(turn, "rationale", JNull)) THEN {1} ELSE {}
            /\ SelectSeq(body, IsToolCallHeading)
                    = [j \in 1..Len(entries) |-> ToolCallHeading(entries[j])]
            /\ rs \subseteq {Len(body)}
            /\ \A i \in th, j \in tc : i < j
            /\ \A j \in tc, k \in rs : j < k
            /\ \A i \in th, k \in rs : i < k

ChatbotBlockOrderWitness ==
    /\ ChatbotRendered
    /\ Get(turn, "rationale", JNull) = JStr(<<"t", "h">>)
    /\ Get(turn, "content", JNull) = JStr(<<"h", "i">>)
    /\ Get(turn, "tool_calls", JNull).t = "list"
    /\ Len(Get(turn, "tool_calls", JNull).items) = 2
    /\ [i \in 1..Len(panel.val.body) |-> BlockKind(panel.val.body[i])]
            = <<"thinking", "other", "tool_call", "json", "other",
                "tool_call", "other", "response">>
    /\ panel.val.body[3] = ToolCallHeading(Get(turn, "tool_calls", JNull).items[1])
    /\ panel.val.body[6] = ToolCallHeading(Get(turn, "tool_calls", JNull).items[2])
    /\ panel.val.body[3] # panel.val.body[6]

\* The turn has a rationale, a tool call or content text
HasRationale(tn) == Truthy(Get(tn, "rationale", JNull))

HasToolCalls(tn) == Truthy(Get(tn, "tool_calls", JNull))

HasContentText(tn) == Truthy(extract_content_text(Get(tn, "content", JNull)).val)

\* C14: the panel of a Chatbot turn holds the "no content" placeholder if
\* and only if the turn has no rationale, no tool call and no content; the
\* placeholder is then the only block.  With any of the three present there
\* is no placeholder and each one present has its block.
ChatbotPlaceholderIffEmpty ==
    ChatbotRendered =>
        LET body == panel.val.body
            nothing == ~HasRationale(turn) /\ ~HasToolCalls(turn)
                       /\ ~HasContentText(turn)
        IN  /\ nothing <=> Positions(body, "placeholder") # {}
            /\ nothing => body = <<Text(<<"[No content]">>, "dim")>>
            /\ HasRationale(turn) <=> Positions(body, "thinking") # {}
            /\ HasToolCalls(turn) <=> Positions(body, "tool_call") # {}
            /\ HasContentText(turn) <=> Positions(body, "response") # {}

ChatbotPlaceholderWitness ==
    /\ ChatbotRendered
    /\ Get(turn, "rationale", JNull) = JStr(<<>>)
    /\ Get(turn, "tool_calls", JNull) = JList(<<>>)
    /\ Get(turn, "content", JNull) = JStr(<<>>)
    /\ panel.val.body = <<Text(<<"[No content]">>, "dim")>>

\* A Tool turn of the documented shape: tool_results is a list of maps, the
\* outputs of each is a list, and the text of an output map is a string when
\* it is there
DocumentedToolTurn(tn) ==
    /\ RoleOf(tn) = JStr(<<"Tool">>)
    /\ Get(tn, "tool_results", Absent).t = "list"
    /\ \A i \in 1..Len(Get(tn, "tool_results", Absent).items) :
        LET tr == Get(tn, "tool_results", Absent).items[i]
        IN  /\ tr.t = "dict"
            /\ Get(tr, "outputs", Absent).t = "list"
            /\ \A j \in 1..Len(Get(tr, "outputs", Absent).items) :
                LET o == Get(tr, "outputs", Absent).items[j]
                IN  o.t = "dict" => Get(o, "text", Absent).t \in {"absent", "str"}

\* The nested-expanded, pretty-printed JSON of a value; no block is that
\* when the expansion has no result
PrettyJson(v) ==
    LET e == CVExpand(v, DefaultMaxDepth)
    IN  IF e.t = "raise" THEN [r |-> "none"]
        ELSE Syntax(DumpsIndent(e, 0))

\* The one block an output is to produce
ExpectedOutputBlock(o) ==
    IF o.t # "dict" THEN Text(PyStr(o), "yellow")
    ELSE LET tx == Get(o, "text", Absent)
         IN  IF tx = Absent THEN PrettyJson(o)
             ELSE IF CVLooksLikeJson(tx.s) /\ Loads(tx.s).ok
             THEN PrettyJson(Loads(tx.s).val)
             ELSE Text(tx.s, "yellow")

\* The blocks a tool result is to produce: heading, one per output, blank
ExpectedResultBlocks(tr) ==
    LET outs == Get(tr, "outputs", Absent).items
    IN  <<Text(<<"Result for: ">> \o PyStr(Get(tr, "tool_call_id",
                                               JStr(<<"unknown">>))),
               "bold yellow")>>
        \o [j \in 1..Len(outs) |-> ExpectedOutputBlock(outs[j])]
        \o <<BlankLine>>

\* C15: in the panel of a Tool turn every output that is a map has exactly
\* one block: the pretty-printed, nested-expanded parsed JSON when its text is
\* JSON-shaped and parses; the text itself, as plain text, when the text is
\* not JSON-shaped or does not parse; the pretty-printed, nested-expanded
\* dump of the whole output map when the output has no text field.
ToolOutputBlocks ==
    (pc # "render" /\ DocumentedToolTurn(turn)
        /\ Get(turn, "tool_results", Absent).items # <<>>) =>
        /\ pc = "rendered"
        /\ LET trs == Get(turn, "tool_results", Absent).items
           IN  panel.val.body
                = Flatten([i \in 1..Len(trs) |-> ExpectedResultBlocks(trs[i])])

KnownRoles ==
    {JStr(<<"System">>), JStr(<<"User">>), JStr(<<"Chatbot">>), JStr(<<"Tool">>)}

\* The title of the panel of each role's renderer
TitleOf(role) ==
    CASE role = JStr(<<"System">>)  -> "System"
      [] role = JStr(<<"User">>)    -> "User"
      [] role = JStr(<<"Chatbot">>) -> "Chatbot"
      [] role = JStr(<<"Tool">>)    -> "Tool Results"
      [] OTHER                      -> "Unknown Turn Type"

\* What the renderer of the role makes of the turn
RenderedBy(role, tn, index) ==
    CASE role = JStr(<<"System">>)  -> render_system_turn(tn, index)
      [] role = JStr(<<"User">>)    -> render_user_turn(tn, index)
      [] role = JStr(<<"Chatbot">>) -> render_chatbot_turn(tn, index)
      [] role = JStr(<<"Tool">>)    -> render_tool_turn(tn, index)

\* C16: a turn whose role is exactly System, User, Chatbot or Tool is
\* rendered by that role's renderer.  A turn with any other role, or with no
\* role, is rendered as the raw JSON dump of the whole turn record, and as
\* the plain string form of the record when the record cannot be serialized
\* to JSON; this path never raises.
RoleDispatch ==
    pc # "render" =>
        IF RoleOf(turn) \in KnownRoles
        THEN /\ \E index \in TurnIndexes :
                    panel = RenderedBy(RoleOf(turn), turn, index)
             /\ pc = "rendered" => panel.val.title = TitleOf(RoleOf(turn))
        ELSE /\ pc = "rendered"
             /\ panel.val.title = "Unknown Turn Type"
             /\ panel.val.body =
                    IF Serializable(turn)
                    THEN <<Syntax(DumpsIndent(turn, 0))>>
                    ELSE <<Text(PyStr(turn), "red")>>

RoleDispatchWitness ==
    /\ pc = "rendered"
    /\ RoleOf(turn) = JStr(<<"UnknownRole">>)
    /\ ~Serializable(turn)
    /\ Get(turn, "content", JNull) = JList(<<PyObject>>)
    /\ panel.val.title = "Unknown Turn Type"
    /\ panel.val.body = <<Text(PyStr(turn), "red")>>

\* The content text of a turn
ContentText(tn) == extract_content_text(Get(tn, "content", JNull)).val.s

\* C17: the panel of a System turn shows the content text in full when it
\* has at most 500 characters, and its first 500 characters followed by the
\* truncation marker when it has more; the rendering leaves the turn record
\* as it was.
SystemTruncation ==
    [][(pc = "render" /\ RoleOf(turn) = JStr(<<"System">>) /\ pc' = "rendered")
        => /\ turn' = turn
           /\ panel'.val.body =
                <<Text(IF Len(ContentText(turn)) <= 500
                       THEN ContentText(turn)
                       ELSE SubSeq(ContentText(turn), 1, 500)
                                \o <<TruncationNote>>,
                       "dim")>>]_vars

SystemTruncationWitness ==
    /\ pc = "rendered"
    /\ RoleOf(turn) = JStr(<<"System">>)
    /\ Len(ContentText(turn)) = 501
    /\ Len(panel.val.body[1].text) = 501
    /\ panel.val.body[1].text[500] = "A"
    /\ panel.val.body[1].text[501] = TruncationNote
    /\ Get(turn, "content", JNull) = JStr(CharsOf(501))

----------------------------------------------------------------------------
(* Properties of _update_display *)

\* _update_display has ended, by returning or by an exception, for a widget
\* that has its content widget
DisplayEnded == pc \in {"done", "raised"} /\ display # NotSet

\* C18: displaying a conversation of n turns shows exactly n panels, in the
\* conversation's order, the i-th being the rendering of the i-th turn with
\* its index; no turn is skipped, merged or reordered.
PanelPerTurnInOrder ==
    (DisplayEnded /\ Truthy(conversation)) =>
        /\ display.shows = "group"
        /\ Len(display.items) = Len(conversation.items)
        /\ \A i \in 1..Len(conversation.items) :
            /\ display.items[i] = render_turn(conversation.items[i], i - 1).val
            /\ display.items[i].index = i - 1

----------------------------------------------------------------------------
(* Properties of _has_markdown_content *)

\* A string that is markup: longer than 100 characters and holding an
\* indicator
MarkupString(v) ==
    /\ v.t = "str"
    /\ Len(v.s) > 100
    /\ \E ind \in Indicators : Contains(v.s, ind)

\* The values below a map or list, at any depth
RECURSIVE Descendants(_)
Descendants(v) ==
    LET below == IF v.t = "dict" THEN {v.vals[i] : i \in 1..Len(v.vals)}
                 ELSE IF v.t = "list" THEN {v.items[i] : i \in 1..Len(v.items)}
                 ELSE {}
    IN  below \cup UNION {Descendants(c) : c \in below}

\* C19: _has_markdown_content is a recursive OR: true for a string exactly
\* when it is longer than 100 characters and holds an indicator, true for a
\* map or list exactly when a descendant value classifies (which, by the
\* same rule, is when a descendant string is markup), false for every other
\* value; a string of 100 characters or fewer never classifies.
MarkdownRecursiveOr ==
    pc = "classified" =>
        /\ has_markdown.b =
              CASE md_data.t = "str" -> MarkupString(md_data)
                [] md_data.t \in {"dict", "list"} ->
                      \E d \in Descendants(md_data) : MarkupString(d)
                [] OTHER -> FALSE
        /\ md_data.t \in {"dict", "list"} =>
              (has_markdown.b <=>
                  \E d \in Descendants(md_data) : has_markdown_content(d))
        /\ (md_data.t = "str" /\ Len(md_data.s) <= 100) => ~has_markdown.b

\* A map two levels deep classifies because of one string, beside a string
\* with an indicator that is too short to classify
MarkdownRecursiveOrWitness ==
    /\ pc = "classified"
    /\ md_data.t = "dict"
    /\ has_markdown.b
    /\ \E d \in Descendants(md_data) : d.t \in {"dict", "list"}
    /\ \E d \in Descendants(md_data) : d = JStr(<<"#", "#">>)

----------------------------------------------------------------------------
(* Properties of the mounting and setting of a conversation *)

\* C21: whatever the order of mounting and setting, once the widget is
\* mounted and no handler is running the display reflects the conversation
\* set last: the panels of its turns for a non-empty list, the message
\* "No conversation data" for None.
MountedShowsLastSet ==
    (mounted /\ was_set /\ Quiescent) =>
        /\ conversation = JNull =>
              display = ShowsText("No conversation data")
        /\ Truthy(conversation) =>
              /\ display.shows = "group"
              /\ Len(display.items) = Len(conversation.items)
              /\ \A i \in 1..Len(conversation.items) :
                    display.items[i]
                        = render_turn(conversation.items[i], i - 1).val

----------------------------------------------------------------------------
(* Properties of BeeViewerApp *)

\* C22: the markdown toggle flips the mode of exactly the viewer of the
\* active tab, changes no viewer on the reward tab, and sample navigation and
\* tab switches change no mode: each viewer's mode is true exactly when "m"
\* was pressed an odd number of times while its tab was active.
ModeIsToggleParity ==
    pc = "idle" /\ active # "" =>
        \A v \in Viewers : markdown_mode[v] <=> (toggled[v] % 2 = 1)

\* One viewer was toggled twice and another once, and the user has moved to
\* another sample and back to the reward tab
ModeIsToggleParityWitness ==
    /\ pc = "idle" /\ active = "tab-reward"
    /\ toggled["json-inputs"] = 2 /\ ~markdown_mode["json-inputs"]
    /\ toggled["json-full"] = 1 /\ markdown_mode["json-full"]
    /\ current_sample_index > 0

\* C23: with a non-empty sample list the current index stays within
\* 0 .. len(filtered_samples)-1 under next, previous, show_sample and row
\* selection; next at the last index, previous at index 0 and show_sample with
\* an index out of range leave the index unchanged.
IndexStaysInRange ==
    /\ [](n_samples > 0 =>
            current_sample_index \in 0..(n_samples - 1))
    /\ [][/\ (NextSample /\ current_sample_index = n_samples - 1)
               => current_sample_index' = current_sample_index
          /\ (PrevSample /\ current_sample_index = 0)
               => current_sample_index' = current_sample_index
          /\ \A index \in {-1, n_samples} :
               (show_sample(index) /\ ShowSample)
                  => current_sample_index' = current_sample_index]_vars

\* The last of several samples is the current one and the cursor is on it
IndexStaysInRangeWitness ==
    /\ n_samples = MaxSamples
    /\ current_sample_index = n_samples - 1
    /\ cursor_row = n_samples - 1
    /\ shown_sample = n_samples - 1

----------------------------------------------------------------------------
(* Properties of _render_markdown_with_code *)

\* The content of section s, trimmed, starts with { or [ and parses as JSON.
ParsesAsJson(s) ==
    /\ StartsWith(Strip(s.content), "{") \/ StartsWith(Strip(s.content), "[")
    /\ Loads(Strip(s.content)).ok

\* What a section is to be rendered as: its header, then for an action or
\* tool_result section that parses the nested-expanded JSON, and for every
\* other section the prose and code-fence rendering of its content.
SectionRendering(s) ==
    LET header == IF s.type = "plain" THEN <<>>
                  ELSE create_section_header(s.type)
        body == IF s.type \in {"action", "tool_result"} /\ ParsesAsJson(s)
                THEN <<Syntax(DumpsIndent(
                                JVExpand(Loads(Strip(s.content)).val), 0))>>
                ELSE render_text_with_code_blocks(s.content).val
    IN  header \o (IF s.type = "plain" THEN body
                   ELSE style_section(s.type, body))

Rendered == pc \in {"rendered", "raised"}

\* C27: an action or tool_result section whose content parses as JSON is
\* rendered as nested-expanded JSON; one whose content is blank, does not
\* start with { or [, or does not parse is still rendered, as prose and code
\* blocks; sections of every other kind are rendered as prose and code blocks
\* whatever they hold.
JsonOnlyInActionSections ==
    Rendered =>
        /\ panel.exc = ""
        /\ panel.val =
             Flatten([i \in 1..Len(sections) |-> SectionRendering(sections[i])])

----------------------------------------------------------------------------
(* Properties of _update_content *)

IsMapOrList(data) == data.t \in {"dict", "list"}

\* The viewer was given its data or toggled, so _update_content has run.
Updated == display # ShowsMarkup("[dim]Loading...[/dim]")

\* C30: for data that is a map or a list, in either mode, _update_content
\* shows the markdown rendering, and that only when the mode is on and the
\* data classifies as markup, or the indented JSON dump; it never ends in
\* the error display.
NeverErrorDisplay ==
    Updated /\ IsMapOrList(md_data) =>
        /\ display.shows = "renderable"
        /\ \/ display.renderable = Syntax(DumpsIndent(md_data, 0))
           \/ /\ markdown_mode[TheViewer] /\ has_markdown_content(md_data)
              /\ display.renderable.r = "Group"

====
